---- MODULE Spec2Model ----
(***************************************************************************)
(* Reconciliation engine of timekpr-ui-backend.                            *)
(*                                                                         *)
(* The repository holds two builds of the engine:                          *)
(*   build = "root"     src/scheduler.rs + src/ssh.rs, with the services   *)
(*                      and repositories on table managed_users;           *)
(*   build = "services" src/services/scheduler.rs + src/services/ssh.rs,   *)
(*                      with src/database/models.rs and                    *)
(*                      src/handlers/api.rs on table managed_user.         *)
(* Init picks the build; it never changes afterwards.                      *)
(***************************************************************************)
EXTENDS Integers, Sequences, FiniteSets, TLC

\* ---------------------------------------------------------------- bounds
NumHosts == 1
MaxClock == 2
MaxTasks == 2
TickHosts == 2

MaxAdds == 2

TaskIds == 1..MaxTasks
AddIds == 1..MaxAdds
Builds == {"root", "services"}

\* Option<T>: None is the empty sequence, Some(x) the one-element sequence.
None == <<>>
Some(x) == <<x>>
IsSome(o) == o # <<>>
Unwrap(o) == o[1]

\* ------------------------------------------------------ request samples
\* Modify-time requests (operation, seconds): two valid ones, one with a
\* bad operation, one with non-positive seconds.
ReqDeltas ==
    { [op |-> "+", secs |-> 1], [op |-> "-", secs |-> 2],
      [op |-> "*", secs |-> 1], [op |-> "+", secs |-> 0] }

\* Weekly hours, monday..sunday, in half hours (5 = 2.5 h, 48 = 24 h).
ZeroHours == <<0, 0, 0, 0, 0, 0, 0>>
SomeHours == <<5, 0, 8, 0, 0, 0, 0>>
BadHours  == <<49, 0, 0, 0, 0, 0, 0>>
ReqHours == {ZeroHours, SomeHours, BadHours}

\* Outcome of one remote command: the ssh process could not be run ("err"),
\* it ran and exited 0 ("exit0"), it ran and exited non-zero ("exitN").
CmdOutcomes == {"err", "exit0", "exitN"}

\* Outcomes of the seven per-weekday commands of one allowed-hours push.
AllDays(o) == [d \in 1..7 |-> o]
MondayOnly == [d \in 1..7 |-> IF d = 1 THEN "exit0" ELSE "err"]

\* Outcomes of one root schedule push: setalloweddays, settimelimits and
\* the per-weekday setallowedhours commands.
RootPushSamples ==
    { <<"exit0", "exit0", AllDays("exit0")>>, <<"err", "exit0", AllDays("exit0")>>,
      <<"exit0", "exitN", AllDays("exit0")>>, <<"exit0", "exit0", AllDays("err")>>,
      <<"exit0", "exit0", MondayOnly>> }

\* Outcomes of one services allowed-hours push: the per-weekday commands
\* and their sudo retries.
HoursPushSamples ==
    { <<AllDays("exit0"), AllDays("err")>>, <<AllDays("err"), AllDays("err")>>,
      <<AllDays("exitN"), AllDays("exit0")>>, <<AllDays("exitN"), AllDays("exitN")>>,
      <<MondayOnly, AllDays("err")>> }

\* Reply to the status query: the command's outcome and the kind of text it
\* printed ("info": well-formed key: value lines; "badnum": a line whose value
\* is a digit string no i64 holds or a list with an empty item; "notfound":
\* the configuration-not-found marker; "empty": nothing).
StatusReplies ==
    { [out |-> "err", text |-> "empty"], [out |-> "exitN", text |-> "empty"],
      [out |-> "exitN", text |-> "notfound"], [out |-> "exit0", text |-> "info"],
      [out |-> "exit0", text |-> "badnum"] }
\* The snapshot parsed from a text: 1 for well-formed lines, 0 for no lines.
SnapOf(text) == IF text = "info" THEN 1 ELSE 0


\* Daily windows of the services build (user_daily_time_interval rows).
Window(sh, sm, eh, em, en) ==
    [start_hour |-> sh, start_minute |-> sm, end_hour |-> eh, end_minute |-> em,
     is_enabled |-> en]
\* update_user_intervals requests: (weekday, window) pairs in key order. The
\* second one has a valid weekday 1 and a reversed weekday 2, the last one
\* a window that ends after midnight.
ReqWindows ==
    { << <<1, Window(9, 0, 17, 0, TRUE)>> >>,
      << <<1, Window(9, 30, 17, 15, TRUE)>>, <<2, Window(17, 0, 9, 0, TRUE)>> >>,
      << <<1, Window(9, 0, 17, 0, FALSE)>> >>,
      << <<3, Window(23, 0, 24, 30, TRUE)>> >> }

\* Outcomes of the four commands of the services weekly push: days, sudo
\* days, limits, sudo limits.
WeeklyOutcomeSamples ==
    { <<"exit0", "exit0", "exit0", "exit0">>, <<"err", "err", "err", "err">>,
      <<"err", "exitN", "exitN", "exit0">>, <<"exit0", "exit0", "err", "err">> }

VARIABLES
    build,      \* which build of the engine runs
    now,        \* logical clock behind Utc::now()
    running,    \* BackgroundScheduler.running
    tasks,      \* the spawned loop tasks
    users,      \* table managed_users / managed_user
    sched,      \* table user_weekly_schedule
    ivals,      \* table user_daily_time_interval
    obs,        \* the last remote call or request: kind, host, outcome
    call,       \* the last call of an adapter or codec function: fn, arg, ret
    ident,      \* columns username, system_ip of the users table
    adds        \* the add-user requests in flight

vars == <<build, now, running, tasks, users, sched, ivals, obs, call, ident, adds>>

\* ------------------------------------------------------------- helpers
NextNow == IF now < MaxClock THEN now + 1 ELSE now

\* The managed hosts are the rows of the users table, ids 1..n.
Hosts == DOMAIN users

\* Ascending sequence of the hosts of S (rows come back in rowid order).
RECURSIVE SeqOfFrom(_, _)
SeqOfFrom(S, h) ==
    IF h > Cardinality(Hosts) THEN <<>>
    ELSE IF h \in S THEN <<h>> \o SeqOfFrom(S, h + 1)
    ELSE SeqOfFrom(S, h + 1)
SeqOf(S) == SeqOfFrom(S, 1)

NoIntervals == [d \in 1..7 |-> None]

\* A row a tick holds in memory while it walks its candidate list.
Item(h, adj, op, hours, iv) ==
    [id |-> h, adj |-> adj, op |-> op, hours |-> hours, iv |-> iv]
UserItem(h) ==
    Item(h, users[h].pending_time_adjustment, users[h].pending_time_operation,
         ZeroHours, NoIntervals)

NoObs == [kind |-> "none", host |-> 0, ok |-> FALSE]
\* No adapter or codec call is recorded.
NoCall == [fn |-> "none", arg |-> <<>>, ret |-> <<>>]
Obs(kind, h, ok) == [kind |-> kind, host |-> h, ok |-> ok]

IdleTask == [pc |-> "none", queue |-> <<>>]
Free(t) == tasks[t].pc \in {"none", "exited", "panicked"}
Alive(t) == ~Free(t)
AliveTasks == {t \in TaskIds : Alive(t)}
FreeSlot == CHOOSE t \in TaskIds : Free(t) /\ \A s \in TaskIds : Free(s) => t <= s

\* ------------------------------------------------------- codec, adapter
\* <<a, a+1, ..., b-1>>
HourRange(a, b) == IF b > a THEN [i \in 1..(b - a) |-> a + i - 1] ELSE <<>>
FullDay == HourRange(0, 24)

RECURSIVE DaysWithHoursFrom(_, _)
DaysWithHoursFrom(hours, d) ==
    IF d > 7 THEN <<>>
    ELSE IF hours[d] > 0 THEN <<d>> \o DaysWithHoursFrom(hours, d + 1)
    ELSE DaysWithHoursFrom(hours, d + 1)
\* allowed_days: the 1-based weekdays with hours > 0
allowed_days(hours) == DaysWithHoursFrom(hours, 1)
\* time_limits taking the hours of weekday i for element i, whatever weekday
\* element i of the days list is.
time_limits_by_position(hours) ==
    [i \in 1..Len(allowed_days(hours)) |-> hours[i] * 1800]
\* time_limits: (hours * 3600.0) as i64, hours being stored in half hours
time_limits(hours) ==
    [i \in 1..Len(allowed_days(hours)) |-> hours[allowed_days(hours)[i]] * 1800]

Cmd(name, day, arg) == [cmd |-> name, day |-> day, arg |-> arg]

\* src/ssh.rs set_weekly_time_limits: o1, o2 are the outcomes of the
\* setalloweddays and settimelimits commands.
set_weekly_time_limits(hours, o1, o2) ==
    LET days == allowed_days(hours)
        c1 == Cmd("setalloweddays", 0, days)
        c2 == Cmd("settimelimits", 0, time_limits(hours))
    IN  IF days = <<>> THEN [ok |-> FALSE, cmds |-> <<>>]
        ELSE IF o1 # "exit0" THEN [ok |-> FALSE, cmds |-> <<c1>>]
        ELSE [ok |-> o2 = "exit0", cmds |-> <<c1, c2>>]

\* src/services/ssh.rs set_weekly_time_limits: each command is retried with
\* sudo when it could not be run; outs = <<days, sudo days, limits, sudo limits>>.
services_set_weekly_time_limits(hours, outs) ==
    LET days == allowed_days(hours)
        c1 == Cmd("setalloweddays", 0, days)
        c1s == Cmd("sudo setalloweddays", 0, days)
        c2 == Cmd("settimelimits", 0, time_limits(hours))
        c2s == Cmd("sudo settimelimits", 0, time_limits(hours))
        first == IF outs[1] = "err" THEN <<c1, c1s>> ELSE <<c1>>
        second == IF outs[3] = "err" THEN <<c2, c2s>> ELSE <<c2>>
    IN  IF days = <<>> THEN [ok |-> FALSE, cmds |-> <<>>]
        ELSE IF outs[1] = "err" /\ outs[2] = "err" THEN [ok |-> FALSE, cmds |-> first]
        ELSE IF outs[3] = "err" /\ outs[4] = "err"
             THEN [ok |-> FALSE, cmds |-> first \o second]
        ELSE [ok |-> TRUE, cmds |-> first \o second]

\* A stored "HH:MM" pair of the weekly schedule row.
TimeInterval(sh, sm, eh, em) == [start |-> <<sh, sm>>, end |-> <<eh, em>>]
DefaultInterval == TimeInterval(0, 0, 23, 59)
WorkInterval == TimeInterval(9, 0, 17, 0)
\* src/ssh.rs parse_time_to_hour keeps the hour of "HH:MM"
parse_time_to_hour(t) == t[1]

\* src/ssh.rs set_weekly_allowed_hours, one weekday: the hour list sent, if any.
\* iv[d] is None when the row holds no interval for the weekday.
RootDayHours(iv, d) ==
    IF iv[d] = None THEN Some(FullDay)
    ELSE LET hs == HourRange(parse_time_to_hour(Unwrap(iv[d]).start),
                             parse_time_to_hour(Unwrap(iv[d]).end))
         IN  IF hs = <<>> THEN None ELSE Some(hs)

RECURSIVE RootDayCmdsFrom(_, _)
RootDayCmdsFrom(iv, d) ==
    IF d > 7 THEN <<>>
    ELSE IF RootDayHours(iv, d) = None THEN RootDayCmdsFrom(iv, d + 1)
    ELSE <<Cmd("setallowedhours", d, Unwrap(RootDayHours(iv, d)))>>
            \o RootDayCmdsFrom(iv, d + 1)

\* dayOut[d] is the outcome of the command of weekday d when one is sent.
set_weekly_allowed_hours(iv, dayOut) ==
    LET success_count ==
            Cardinality({d \in 1..7 : RootDayHours(iv, d) # None /\ dayOut[d] = "exit0"})
    IN  [ok |-> success_count > 0, cmds |-> RootDayCmdsFrom(iv, 1),
         success_count |-> success_count]

\* is_valid_interval without the comparison of start and end.
is_valid_interval_unordered(w) ==
    LET start_minutes == w.start_hour * 60 + w.start_minute
        end_minutes == w.end_hour * 60 + w.end_minute
    IN  /\ start_minutes >= 0 /\ start_minutes < 1440
        /\ end_minutes >= 0 /\ end_minutes < 1440

\* src/database/models.rs UserDailyTimeInterval::is_valid_interval
is_valid_interval(w) ==
    LET start_minutes == w.start_hour * 60 + w.start_minute
        end_minutes == w.end_hour * 60 + w.end_minute
    IN  /\ start_minutes < end_minutes
        /\ start_minutes >= 0 /\ start_minutes < 1440
        /\ end_minutes >= 0 /\ end_minutes < 1440

\* to_timekpr_format writing the last-hour token for end_minute = 0 as well.
to_timekpr_format_always_last(w) ==
    IF ~w.is_enabled THEN None
    ELSE IF w.start_minute = 0 /\ w.end_minute = 0
         THEN Some([i \in 1..Len(HourRange(w.start_hour, w.end_hour)) |->
                        <<HourRange(w.start_hour, w.end_hour)[i]>>])
    ELSE IF w.start_hour = w.end_hour
         THEN Some(<< <<w.start_hour, w.start_minute, w.end_minute>> >>)
    ELSE LET first == IF w.start_minute = 0 THEN << <<w.start_hour>> >>
                      ELSE << <<w.start_hour, w.start_minute, 59>> >>
             mid == [i \in 1..Len(HourRange(w.start_hour + 1, w.end_hour)) |->
                        <<HourRange(w.start_hour + 1, w.end_hour)[i]>>]
         IN  Some(first \o mid \o << <<w.end_hour, 0, w.end_minute>> >>)

\* A token "h" is <<h>>, a token "h[a-b]" is <<h, a, b>>.
to_timekpr_format(w) ==
    IF ~w.is_enabled THEN None
    ELSE IF w.start_minute = 0 /\ w.end_minute = 0
         THEN Some([i \in 1..Len(HourRange(w.start_hour, w.end_hour)) |->
                        <<HourRange(w.start_hour, w.end_hour)[i]>>])
    ELSE IF w.start_hour = w.end_hour
         THEN Some(<< <<w.start_hour, w.start_minute, w.end_minute>> >>)
    ELSE LET first == IF w.start_minute = 0 THEN << <<w.start_hour>> >>
                      ELSE << <<w.start_hour, w.start_minute, 59>> >>
             mid == [i \in 1..Len(HourRange(w.start_hour + 1, w.end_hour)) |->
                        <<HourRange(w.start_hour + 1, w.end_hour)[i]>>]
             last == IF w.end_minute > 0 THEN << <<w.end_hour, 0, w.end_minute>> >>
                     ELSE <<>>
         IN  Some(first \o mid \o last)

FullDayTokens == [i \in 1..24 |-> <<i - 1>>]

\* src/services/ssh.rs set_allowed_hours, one weekday. rows[d] is None when no
\* row is stored for the weekday; out is the command's outcome, sudo the
\* outcome of its sudo retry. The result is whether the weekday counts as a
\* success and the commands sent.
ServicesDay(rows, d, out, sudo) ==
    IF rows[d] = None THEN [counted |-> FALSE, cmds |-> <<>>]
    ELSE LET w == Unwrap(rows[d]) IN
         IF w.is_enabled /\ is_valid_interval(w)
         THEN LET c == Cmd("setallowedhours", d, Unwrap(to_timekpr_format(w)))
                  cs == Cmd("sudo setallowedhours", d, Unwrap(to_timekpr_format(w)))
              IN  IF out = "err" THEN [counted |-> FALSE, cmds |-> <<c>>]
                  ELSE IF out = "exit0" THEN [counted |-> TRUE, cmds |-> <<c>>]
                  ELSE [counted |-> sudo = "exit0", cmds |-> <<c, cs>>]
         ELSE [counted |-> out # "err",
               cmds |-> <<Cmd("setallowedhours", d, FullDayTokens)>>]

RECURSIVE ServicesDayCmdsFrom(_, _, _, _)
ServicesDayCmdsFrom(rows, d, dayOut, sudoOut) ==
    IF d > 7 THEN <<>>
    ELSE ServicesDay(rows, d, dayOut[d], sudoOut[d]).cmds
            \o ServicesDayCmdsFrom(rows, d + 1, dayOut, sudoOut)

set_allowed_hours(rows, dayOut, sudoOut) ==
    LET success_count ==
            Cardinality({d \in 1..7 : ServicesDay(rows, d, dayOut[d], sudoOut[d]).counted})
    IN  [ok |-> success_count > 0,
         cmds |-> ServicesDayCmdsFrom(rows, 1, dayOut, sudoOut),
         success_count |-> success_count]

\* src/ssh.rs modify_time_left: applied iff the command exited 0
modify_time_left(out) == out = "exit0"

\* src/services/ssh.rs modify_time_left: a bad operation sends nothing
services_modify_time_left(op, out) ==
    IF op \notin {"+", "-"} THEN FALSE ELSE out = "exit0"


\* Agent output. A line "key: value" is [key, value], its value the items
\* between the ';' of the text (one item: no ';' in it); a line without
\* ": " has no key. Items are taken from a small vocabulary of texts.
DigitItems == {"0", "42", "99999999999999999999"}
Items == DigitItems \cup {"", "true", "TRUE", "False", "abc"}
Line(key, value) == [key |-> Some(key), value |-> value]
NoSeparatorLine == [key |-> None, value |-> <<"abc">>]

\* item.chars().all(|c| c.is_ascii_digit()): true of the empty text as well
AllAsciiDigits(item) == item \in DigitItems \/ item = ""
\* item.parse::<i64>(): Err for the empty text and beyond i64::MAX
ParseI64(item) ==
    IF item = "0" THEN Some(0) ELSE IF item = "42" THEN Some(42) ELSE None

\* serde_json::Value
JsonNumber(n) == [t |-> "number", v |-> n]
JsonString(x) == [t |-> "string", v |-> x]
JsonBool(b) == [t |-> "bool", v |-> b]
JsonArray(xs) == [t |-> "array", v |-> xs]

\* parse_timekpr_output, one value: the value it is given is trimmed and not
\* empty. `panic` is the unwrap of a failed i64 parse.
JsonValue(value) ==
    IF Len(value) = 1 /\ AllAsciiDigits(value[1])
    THEN IF ParseI64(value[1]) = None THEN [panic |-> TRUE, json |-> None]
         ELSE [panic |-> FALSE, json |-> Some(JsonNumber(Unwrap(ParseI64(value[1]))))]
    ELSE IF Len(value) > 1
    THEN IF \E i \in 1..Len(value) : AllAsciiDigits(value[i]) /\ ParseI64(value[i]) = None
         THEN [panic |-> TRUE, json |-> None]
         ELSE [panic |-> FALSE,
               json |-> Some(JsonArray([i \in 1..Len(value) |->
                            IF AllAsciiDigits(value[i])
                            THEN JsonNumber(Unwrap(ParseI64(value[i])))
                            ELSE JsonString(value[i])]))]
    ELSE IF value[1] \in {"true", "TRUE"} THEN [panic |-> FALSE, json |-> Some(JsonBool(TRUE))]
    ELSE IF value[1] = "False" THEN [panic |-> FALSE, json |-> Some(JsonBool(FALSE))]
    ELSE [panic |-> FALSE, json |-> Some(JsonString(value[1]))]

\* config.insert(key, json_value)
Inserted(config, key, json) ==
    [k \in DOMAIN config \cup {key} |-> IF k = key THEN json ELSE config[k]]

\* parse_timekpr_output from line i on, config holding the lines before.
RECURSIVE ParseFrom(_, _, _)
ParseFrom(lines, i, config) ==
    IF i > Len(lines) THEN [panic |-> FALSE, config |-> config]
    ELSE IF lines[i].key = None \/ lines[i].value = <<"">>
    THEN ParseFrom(lines, i + 1, config)
    ELSE IF JsonValue(lines[i].value).panic THEN [panic |-> TRUE, config |-> config]
    ELSE ParseFrom(lines, i + 1,
                   Inserted(config, Unwrap(lines[i].key),
                            Unwrap(JsonValue(lines[i].value).json)))

parse_timekpr_output(lines) == ParseFrom(lines, 1, <<>>)

\* The lines behind the kinds of text of a status reply.
TextLines(text) ==
    IF text = "info" THEN <<Line("TIME_LEFT_DAY", <<"42">>)>>
    ELSE IF text = "badnum" THEN <<Line("TIME_LEFT_DAY", <<"99999999999999999999">>)>>
    ELSE IF text = "spent" THEN <<Line("TIME_SPENT_DAY", <<"0">>)>>
    ELSE IF text = "twolines"
    THEN <<Line("TIME_LEFT_DAY", <<"42">>), Line("TIME_SPENT_DAY", <<"0">>)>>
    ELSE IF text = "list" THEN <<Line("ALLOWED_WEEKDAYS", <<"0", "42">>)>>
    ELSE IF text = "emptyitem" THEN <<Line("ALLOWED_WEEKDAYS", <<"42", "">>)>>
    ELSE IF text = "semicolon" THEN <<Line("ALLOWED_WEEKDAYS", <<"", "">>)>>
    ELSE IF text = "biglist"
    THEN <<Line("ALLOWED_WEEKDAYS", <<"42", "99999999999999999999">>)>>
    ELSE IF text = "bool" THEN <<Line("TRACK_INACTIVE", <<"TRUE">>)>>
    ELSE IF text = "word" THEN <<Line("LOCKOUT_TYPE", <<"abc">>)>>
    ELSE IF text = "nosep" THEN <<NoSeparatorLine>>
    ELSE <<>>

\* ---------------------------------------------------------------- rows
\* managed_users / managed_user; last_checked 0 is NULL
UserRow(valid) ==
    [is_valid |-> valid, last_checked |-> 0, last_config |-> None,
     pending_time_adjustment |-> None, pending_time_operation |-> None]

\* user_weekly_schedule; last_synced 0 is NULL. iv holds the seven
\* (start_time, end_time) column pairs of the root build.
ScheduleRow(hours, iv, synced, modified) ==
    [hours |-> hours, iv |-> iv, is_synced |-> synced, last_synced |-> 0,
     last_modified |-> modified]

\* user_daily_time_interval
IntervalRow(w, modified) ==
    [w |-> w, is_synced |-> FALSE, last_synced |-> 0, last_modified |-> modified]

HasPending(u) ==
    u.pending_time_adjustment # None /\ u.pending_time_operation # None

\* The (username, system_ip) pair of a host: one account name, the address
\* numbered.
Account(a) == <<"kid", a>>

\* An add-user request: not yet made.
IdleAdd == [pc |-> "none", pair |-> <<>>, answer |-> "none"]

Init ==
    /\ build \in Builds
    /\ now = 1
    /\ running = FALSE
    /\ tasks = [t \in TaskIds |-> IdleTask]
    /\ users \in [1..NumHosts -> {UserRow(TRUE), UserRow(FALSE)}]
    /\ sched = [h \in 1..NumHosts |-> None]
    /\ ivals = [h \in 1..NumHosts |-> NoIntervals]
    /\ obs = NoObs
    /\ call = NoCall
    /\ ident = [h \in 1..NumHosts |-> Account(h)]
    /\ adds = [r \in AddIds |-> IdleAdd]

\* ------------------------------------------------- scheduler: start, stop
\* The loop task start() spawns: the root loop first waits for its interval,
\* the services loop first tests the flag.
SpawnedTask == [pc |-> IF build = "root" THEN "wait" ELSE "check", queue |-> <<>>]

\* start() without the test of the flag: every call spawns a loop task.
start_respawns ==
    /\ \E t \in TaskIds : Free(t)
    /\ running' = TRUE
    /\ tasks' = [tasks EXCEPT ![FreeSlot] = SpawnedTask]
    /\ obs' = Obs("start", 0, ~running)
    /\ UNCHANGED <<build, ident, adds, call, now, users, sched, ivals>>

\* start(), under the write lock of `running`: a no-op when already running,
\* else it sets the flag and spawns one loop task.
start ==
    /\ running \/ \E t \in TaskIds : Free(t)
    /\ IF running
       THEN /\ UNCHANGED <<running, tasks>>
            /\ obs' = Obs("start", 0, FALSE)
       ELSE /\ running' = TRUE
            /\ tasks' = [tasks EXCEPT ![FreeSlot] = SpawnedTask]
            /\ obs' = Obs("start", 0, TRUE)
    /\ UNCHANGED <<build, ident, adds, call, now, users, sched, ivals>>

\* stop() exists in the services build only.
stop ==
    /\ build = "services"
    /\ running' = FALSE
    /\ obs' = Obs("stop", 0, TRUE)
    /\ UNCHANGED <<build, ident, adds, call, now, tasks, users, sched, ivals>>

is_running == running

\* ------------------------------------------------ root build: loop task
SetTask(t, pc, queue) == [tasks EXCEPT ![t] = [pc |-> pc, queue |-> queue]]

\* After a candidate list: walk it, or go on when it is empty.
Enter(t, list, walk, next) ==
    IF list = <<>> THEN SetTask(t, next, <<>>) ELSE SetTask(t, walk, list)
\* After one candidate: the rest of the list, or the next phase.
Advance(t, next) ==
    IF Tail(tasks[t].queue) = <<>> THEN SetTask(t, next, <<>>)
    ELSE [tasks EXCEPT ![t].queue = Tail(tasks[t].queue)]

\* The rows of the hosts of S, in rowid order, as the loop holds them.
UserItems(S) == [i \in 1..Len(SeqOf(S)) |-> UserItem(SeqOf(S)[i])]

\* interval.tick().await, then the test of the flag
interval_tick(t) ==
    /\ build = "root"
    /\ tasks[t].pc = "wait"
    /\ tasks' = IF running THEN SetTask(t, "q_users", <<>>)
                ELSE SetTask(t, "exited", <<>>)
    /\ UNCHANGED <<build, ident, adds, call, now, running, users, sched, ivals, obs>>

\* update_users_task: SELECT ... WHERE is_valid = 1 (q: the query succeeds)
update_users_task(t, q) ==
    /\ build = "root"
    /\ tasks[t].pc = "q_users"
    /\ tasks' = IF q THEN Enter(t, UserItems({h \in Hosts : users[h].is_valid}),
                                "users", "q_pending")
                ELSE SetTask(t, "q_pending", <<>>)
    /\ UNCHANGED <<build, ident, adds, call, now, running, users, sched, ivals, obs>>

\* src/ssh.rs validate_user: reachable iff the status query exited 0; the
\* snapshot is built with `if let Ok(..) = parse`, so no text makes it fail.
validate_user(r) ==
    IF r.out = "exit0" THEN [reachable |-> TRUE, config |-> Some(SnapOf(r.text))]
    ELSE [reachable |-> FALSE, config |-> None]

\* update_users_task storing the outcome of the validation as is_valid.
RefreshedUserInvalidates(u, v) ==
    IF v.reachable
    THEN [u EXCEPT !.last_checked = now, !.last_config = v.config]
    ELSE [u EXCEPT !.last_checked = now, !.is_valid = FALSE]

\* The two UPDATEs of update_users_task: last_checked and last_config when
\* reachable, last_checked alone otherwise.
RefreshedUser(u, v) ==
    IF v.reachable
    THEN [u EXCEPT !.last_checked = now, !.last_config = v.config]
    ELSE [u EXCEPT !.last_checked = now]

\* update_users_task, one user: r is the reply to the status query, w whether
\* the UPDATE succeeds (its result is dropped).
update_users_step(t, r, w) ==
    /\ build = "root"
    /\ tasks[t].pc = "users"
    /\ LET h == Head(tasks[t].queue).id IN
        /\ users' = IF w THEN [users EXCEPT ![h] = RefreshedUser(users[h], validate_user(r))]
                    ELSE users
        /\ now' = IF w THEN NextNow ELSE now
        /\ obs' = Obs("validate", h, validate_user(r).reachable)
    /\ tasks' = Advance(t, "q_pending")
    /\ UNCHANGED <<build, ident, adds, call, running, sched, ivals>>

\* process_pending_adjustments: SELECT ... WHERE both pending columns NOT NULL
process_pending_adjustments(t, q) ==
    /\ build = "root"
    /\ tasks[t].pc = "q_pending"
    /\ tasks' = IF q THEN Enter(t, UserItems({h \in Hosts : HasPending(users[h])}),
                                "pending", "q_sync")
                ELSE SetTask(t, "q_sync", <<>>)
    /\ UNCHANGED <<build, ident, adds, call, now, running, users, sched, ivals, obs>>

\* UPDATE ... SET pending_time_adjustment = NULL, pending_time_operation = NULL,
\* last_checked = ?
ClearedUser(u) ==
    [u EXCEPT !.pending_time_adjustment = None, !.pending_time_operation = None,
              !.last_checked = now]

\* process_pending_adjustments, one user: the delta read by the query is sent;
\* on success the pending columns are cleared (the result of the UPDATE is
\* dropped).
pending_step(t, out, w) ==
    /\ build = "root"
    /\ tasks[t].pc = "pending"
    /\ LET h == Head(tasks[t].queue).id
           success == modify_time_left(out)
       IN
        /\ users' = IF success /\ w THEN [users EXCEPT ![h] = ClearedUser(users[h])]
                    ELSE users
        /\ now' = IF success /\ w THEN NextNow ELSE now
        /\ obs' = Obs("apply", h, success)
    /\ tasks' = Advance(t, "q_sync")
    /\ UNCHANGED <<build, ident, adds, call, running, sched, ivals>>

Unsynced(h) == sched[h] # None /\ ~Unwrap(sched[h]).is_synced

\* sync_pending_schedules: the JOIN ... WHERE u.is_valid = 1 AND s.is_synced = 0
sync_pending_schedules(t, q) ==
    /\ build = "root"
    /\ tasks[t].pc = "q_sync"
    /\ LET S == SeqOf({h \in Hosts : users[h].is_valid /\ Unsynced(h)}) IN
       tasks' = IF q
                THEN Enter(t, [i \in 1..Len(S) |->
                                 Item(S[i], None, None, Unwrap(sched[S[i]]).hours,
                                      Unwrap(sched[S[i]]).iv)],
                           "sync", "wait")
                ELSE SetTask(t, "wait", <<>>)
    /\ UNCHANGED <<build, ident, adds, call, now, running, users, sched, ivals, obs>>

\* UPDATE user_weekly_schedule SET is_synced = 1, last_synced = ? WHERE user_id = ?
MarkedSynced(row) ==
    IF row = None THEN None
    ELSE Some([Unwrap(row) EXCEPT !.is_synced = TRUE, !.last_synced = now])

\* Success as soon as one of the two pushes succeeds.
SyncSuccessEither(limits_success, hours_success) == limits_success \/ hours_success

\* "Consider success if both operations succeed"
SyncSuccess(limits_success, hours_success) == limits_success /\ hours_success

\* sync_pending_schedules, one row: both pushes are made with the values read
\* by the query; the row is marked when both returned ok.
sync_step(t, o1, o2, dayOut, w) ==
    /\ build = "root"
    /\ tasks[t].pc = "sync"
    /\ LET item == Head(tasks[t].queue)
           h == item.id
           success == SyncSuccess(set_weekly_time_limits(item.hours, o1, o2).ok,
                                  set_weekly_allowed_hours(item.iv, dayOut).ok)
       IN
        /\ sched' = IF success /\ w THEN [sched EXCEPT ![h] = MarkedSynced(sched[h])]
                    ELSE sched
        /\ now' = IF success /\ w THEN NextNow ELSE now
        /\ obs' = Obs("sync", h, success)
    /\ tasks' = Advance(t, "wait")
    /\ UNCHANGED <<build, ident, adds, call, running, users, ivals>>

\* ------------------------------------------------- root build: requests
\* src/models/domain.rs TimeModification::new
TimeModificationValid(d) == d.op \in {"+", "-"} /\ d.secs > 0

\* update_pending_time_adjustment binding "+" whatever the operation.
QueuedUserAlwaysAdds(u, d) ==
    [u EXCEPT !.pending_time_adjustment = Some(d.secs),
              !.pending_time_operation = Some("+")]

\* SqliteUserRepository::update_pending_time_adjustment
QueuedUser(u, d) ==
    [u EXCEPT !.pending_time_adjustment = Some(d.secs),
              !.pending_time_operation = Some(d.op)]

\* The row TimeService::modify_time saves after a successful apply
AppliedUser(u, config) ==
    [u EXCEPT !.last_checked = now, !.last_config = config,
              !.pending_time_adjustment = None, !.pending_time_operation = None]

\* The answer of a modify-time request: the HTTP status ("panic" when the
\* handler panicked), and the success and pending members of the body.
Answer(status, success, pending) ==
    [status |-> status, success |-> success, pending |-> pending]
\* The record of a modify-time request and its answer.
Answered(d, answer) == [fn |-> "modify_time", arg |-> d, ret |-> answer]

\* handlers/time.rs modify_time + TimeService::modify_time: d is the request,
\* out the outcome of the settimeleft command, r the reply to the status
\* query made after a success, w whether the write succeeds (a failed write
\* is answered as a database error).
root_modify_time(h, d, out, r, w) ==
    /\ build = "root"
    /\ IF ~TimeModificationValid(d)
       THEN /\ obs' = Obs("rejected", h, FALSE)
            /\ call' = Answered(d, Answer("400", FALSE, FALSE))
            /\ UNCHANGED <<users, now>>
       ELSE IF modify_time_left(out)
       THEN /\ obs' = Obs("modify", h, TRUE)
            /\ call' = Answered(d, IF validate_user(r).reachable /\ ~w
                                   THEN Answer("500", FALSE, FALSE)
                                   ELSE Answer("200", TRUE, FALSE))
            /\ IF validate_user(r).reachable /\ w
               THEN /\ users' = [users EXCEPT ![h] = AppliedUser(users[h], validate_user(r).config)]
                    /\ now' = NextNow
               ELSE UNCHANGED <<users, now>>
       ELSE /\ obs' = Obs("modify", h, FALSE)
            /\ call' = Answered(d, IF w THEN Answer("200", TRUE, TRUE)
                                   ELSE Answer("500", FALSE, FALSE))
            /\ users' = IF w THEN [users EXCEPT ![h] = QueuedUser(users[h], d)] ELSE users
            /\ UNCHANGED now
    /\ UNCHANGED <<build, ident, adds, running, tasks, sched, ivals>>

\* UserService::validate_user: the manual validation stores the outcome
root_validate_request(h, r, w) ==
    /\ build = "root"
    /\ IF w
       THEN /\ users' = [users EXCEPT ![h] =
                            [users[h] EXCEPT !.is_valid = validate_user(r).reachable,
                                             !.last_checked = now,
                                             !.last_config = validate_user(r).config]]
            /\ now' = NextNow
       ELSE UNCHANGED <<users, now>>
    /\ obs' = Obs("revalidate", h, validate_user(r).reachable)
    /\ UNCHANGED <<build, ident, adds, call, running, tasks, sched, ivals>>

\* src/models/domain.rs WeeklyHours::validate, hours in half hours
WeeklyHoursValid(hours) == \A d \in 1..7 : ~(hours[d] < 0 \/ hours[d] > 48)

\* src/models/domain.rs TimeInterval::new: "HH:MM" strings compare as
\* (hour, minute) pairs
TimeIntervalValid(i) ==
    ~(i.start[1] > i.end[1] \/ (i.start[1] = i.end[1] /\ i.start[2] >= i.end[2]))

ReqIntervals == {None, Some(WorkInterval), Some(TimeInterval(17, 0, 9, 0))}

\* Schedule::new / Schedule::new_with_intervals: the Schedule handed to save
NewSchedule(hours, iv) ==
    [hours |-> hours, iv |-> iv, is_synced |-> FALSE, last_synced |-> 0,
     last_modified |-> now]

\* SqliteScheduleRepository::save: INSERT OR REPLACE of the row with the
\* Schedule's values, its is_synced and its last_modified; last_synced is not
\* among the columns and becomes NULL.
save(schedule) ==
    Some(ScheduleRow(schedule.hours, schedule.iv, schedule.is_synced,
                     schedule.last_modified))

\* handlers/schedule.rs update_schedule_api + ScheduleService: ri is the
\* interval of the request applied to every weekday, None when the request
\* carries no interval.
update_schedule_api(h, hours, ri, w) ==
    /\ build = "root"
    /\ IF (ri # None /\ ~TimeIntervalValid(Unwrap(ri))) \/ ~WeeklyHoursValid(hours)
       THEN /\ obs' = Obs("rejected", h, FALSE)
            /\ UNCHANGED <<sched, now>>
       ELSE /\ obs' = Obs("write", h, w)
            /\ IF w
               THEN /\ sched' = [sched EXCEPT ![h] =
                          save(NewSchedule(hours,
                                 [d \in 1..7 |-> IF ri = None THEN Some(DefaultInterval) ELSE ri]))]
                    /\ now' = NextNow
               ELSE UNCHANGED <<sched, now>>
    /\ UNCHANGED <<build, ident, adds, call, running, tasks, users, ivals>>

\* src/main.rs update_schedule_api: UPDATE of the hours of an existing row
UpdatedHours(row, hours) ==
    IF row = None THEN None
    ELSE Some([Unwrap(row) EXCEPT !.hours = hours, !.is_synced = FALSE,
                                  !.last_modified = now])

main_update_schedule_api(h, hours, w) ==
    /\ build = "root"
    /\ IF \E d \in 1..7 : hours[d] < 0 \/ hours[d] > 48
       THEN /\ obs' = Obs("rejected", h, FALSE)
            /\ UNCHANGED <<sched, now>>
       ELSE /\ obs' = Obs("write", h, w /\ sched[h] # None)
            /\ IF w /\ sched[h] # None
               THEN /\ sched' = [sched EXCEPT ![h] = UpdatedHours(sched[h], hours)]
                    /\ now' = NextNow
               ELSE UNCHANGED <<sched, now>>
    /\ UNCHANGED <<build, ident, adds, call, running, tasks, users, ivals>>

\* -------------------------------------------- services build: loop task
\* run_loop as `loop { .. }`: the flag is not tested.
run_loop_unconditional(t) ==
    /\ build = "services"
    /\ tasks[t].pc = "check"
    /\ tasks' = SetTask(t, "wait", <<>>)
    /\ UNCHANGED <<build, ident, adds, call, now, running, users, sched, ivals, obs>>

\* run_loop: `while *self.running.read().await`
run_loop_check(t) ==
    /\ build = "services"
    /\ tasks[t].pc = "check"
    /\ tasks' = IF running THEN SetTask(t, "wait", <<>>) ELSE SetTask(t, "exited", <<>>)
    /\ UNCHANGED <<build, ident, adds, call, now, running, users, sched, ivals, obs>>

\* interval.tick().await, then update_all_users: ManagedUser::get_all reads
\* every row, valid or not (q: the query succeeds; an error ends the tick).
update_all_users(t, q) ==
    /\ build = "services"
    /\ tasks[t].pc = "wait"
    /\ tasks' = IF q THEN Enter(t, UserItems(Hosts), "u_pending", "check")
                ELSE SetTask(t, "check", <<>>)
    /\ UNCHANGED <<build, ident, adds, call, now, running, users, sched, ivals, obs>>

\* update_user is over for this user: the next user, or back to the flag.
NextUser(t) ==
    IF Tail(tasks[t].queue) = <<>> THEN SetTask(t, "check", <<>>)
    ELSE SetTask(t, "u_pending", Tail(tasks[t].queue))
\* update_user goes on with its next part for the same user.
Goto(t, pc) == [tasks EXCEPT ![t].pc = pc]

\* ManagedUser::clear_pending_adjustment
clear_pending_adjustment(u) ==
    [u EXCEPT !.pending_time_adjustment = None, !.pending_time_operation = None]

\* update_user, pending delta: the delta of the row read by get_all is sent;
\* on Ok(true) the pending columns are cleared, and a failed clear (`?`) ends
\* update_user for this user.
u_pending(t, out, w) ==
    /\ build = "services"
    /\ tasks[t].pc = "u_pending"
    /\ LET item == Head(tasks[t].queue)
           h == item.id
           success == services_modify_time_left(Unwrap(item.op), out)
       IN
        IF item.adj # None /\ item.op # None
        THEN /\ obs' = Obs("apply", h, success)
             /\ users' = IF success /\ w
                         THEN [users EXCEPT ![h] = clear_pending_adjustment(users[h])]
                         ELSE users
             /\ tasks' = IF success /\ ~w THEN NextUser(t) ELSE Goto(t, "u_weekly")
        ELSE /\ tasks' = Goto(t, "u_weekly")
             /\ UNCHANGED <<users, obs>>
    /\ UNCHANGED <<build, ident, adds, call, now, running, sched, ivals>>

\* update_user, weekly schedule: the row is read, pushed when unsynced and
\* marked on Ok(true); a failed mark (`?`) ends update_user for this user.
u_weekly(t, outs, w) ==
    /\ build = "services"
    /\ tasks[t].pc = "u_weekly"
    /\ LET h == Head(tasks[t].queue).id
           success == services_set_weekly_time_limits(Unwrap(sched[h]).hours, outs).ok
       IN
        IF Unsynced(h)
        THEN /\ obs' = Obs("sync", h, success)
             /\ sched' = IF success /\ w THEN [sched EXCEPT ![h] = MarkedSynced(sched[h])]
                         ELSE sched
             /\ now' = IF success /\ w THEN NextNow ELSE now
             /\ tasks' = IF success /\ ~w THEN NextUser(t) ELSE Goto(t, "u_intervals")
        ELSE /\ tasks' = Goto(t, "u_intervals")
             /\ UNCHANGED <<sched, now, obs>>
    /\ UNCHANGED <<build, ident, adds, call, running, users, ivals>>

UnsyncedIntervals(h) == {d \in 1..7 : ivals[h][d] # None /\ ~Unwrap(ivals[h][d]).is_synced}

\* UserDailyTimeInterval::mark_synced on each row that was read unsynced
MarkedIntervals(rows) ==
    [d \in 1..7 |->
        IF rows[d] # None /\ ~Unwrap(rows[d]).is_synced
        THEN Some([Unwrap(rows[d]) EXCEPT !.is_synced = TRUE, !.last_synced = now])
        ELSE rows[d]]

\* The HashMap<day, interval> handed to set_allowed_hours
IntervalsDict(rows) == [d \in 1..7 |-> IF rows[d] = None THEN None ELSE Some(Unwrap(rows[d]).w)]

\* update_user, daily windows: when some row is unsynced all rows are pushed
\* and the unsynced ones marked on Ok(true).
u_intervals(t, dayOut, sudoOut, w) ==
    /\ build = "services"
    /\ tasks[t].pc = "u_intervals"
    /\ LET h == Head(tasks[t].queue).id
           success == set_allowed_hours(IntervalsDict(ivals[h]), dayOut, sudoOut).ok
       IN
        IF UnsyncedIntervals(h) # {}
        THEN /\ obs' = Obs("sync_hours", h, success)
             /\ ivals' = IF success /\ w THEN [ivals EXCEPT ![h] = MarkedIntervals(ivals[h])]
                         ELSE ivals
             /\ now' = IF success /\ w THEN NextNow ELSE now
             /\ tasks' = IF success /\ ~w THEN NextUser(t) ELSE Goto(t, "u_validate")
        ELSE /\ tasks' = Goto(t, "u_validate")
             /\ UNCHANGED <<ivals, now, obs>>
    /\ UNCHANGED <<build, ident, adds, call, running, users, sched>>

\* src/services/ssh.rs validate_user: a command that could not be run, or
\* the not-found marker, give (false, None); any other output is parsed,
\* whatever the exit code. parse_timekpr_output unwraps the i64 parse of
\* every all-digit value and list item, so a "badnum" text panics.
services_validate_user(r) ==
    IF r.out = "err" \/ r.text = "notfound"
    THEN [panic |-> FALSE, is_valid |-> FALSE, config |-> None]
    ELSE IF parse_timekpr_output(TextLines(r.text)).panic
    THEN [panic |-> TRUE, is_valid |-> FALSE, config |-> None]
    ELSE [panic |-> FALSE, is_valid |-> TRUE, config |-> Some(SnapOf(r.text))]

\* ManagedUser::update_validation
update_validation(u, is_valid, config) ==
    [u EXCEPT !.is_valid = is_valid, !.last_checked = now, !.last_config = config]

\* The write update_user makes after validate_user: update_validation when
\* valid with a snapshot, else "UPDATE managed_user SET last_checked = ?"
ValidatedUser(u, v) ==
    IF v.is_valid /\ v.config # None THEN update_validation(u, v.is_valid, v.config)
    ELSE [u EXCEPT !.last_checked = now]

\* update_user, status refresh. A panic ends the loop task; `running` stays.
u_validate(t, r, w) ==
    /\ build = "services"
    /\ tasks[t].pc = "u_validate"
    /\ LET h == Head(tasks[t].queue).id
           v == services_validate_user(r)
       IN
        IF v.panic
        THEN /\ tasks' = SetTask(t, "panicked", <<>>)
             /\ obs' = Obs("panic", h, FALSE)
             /\ UNCHANGED <<users, now>>
        ELSE /\ tasks' = NextUser(t)
             /\ obs' = Obs("validate", h, v.is_valid)
             /\ users' = IF w THEN [users EXCEPT ![h] = ValidatedUser(users[h], v)] ELSE users
             /\ now' = IF w THEN NextNow ELSE now
    /\ UNCHANGED <<build, ident, adds, call, running, sched, ivals>>

\* ---------------------------------------------- services build: requests
\* ManagedUser::set_pending_adjustment
set_pending_adjustment(u, seconds, operation) ==
    [u EXCEPT !.pending_time_adjustment = Some(seconds),
              !.pending_time_operation = Some(operation)]

\* handlers/api.rs modify_time: only the operation is validated. On Ok(true)
\* the pending columns are cleared (w) and the status is refreshed (wv); on
\* Ok(false) the request is stored as the pending delta (w). The results of
\* the writes are dropped: the answer does not depend on them.
api_modify_time(h, d, out, r, w, wv) ==
    /\ build = "services"
    /\ LET v == services_validate_user(r)
           cleared == IF w THEN clear_pending_adjustment(users[h]) ELSE users[h]
       IN
        IF d.op \notin {"+", "-"}
        THEN /\ obs' = Obs("rejected", h, FALSE)
             /\ call' = Answered(d, Answer("200", FALSE, FALSE))
             /\ UNCHANGED <<users, now>>
        ELSE IF services_modify_time_left(d.op, out)
        THEN /\ obs' = Obs("modify", h, TRUE)
             /\ call' = Answered(d, IF v.panic THEN Answer("panic", FALSE, FALSE)
                                    ELSE Answer("200", TRUE, FALSE))
             /\ IF ~v.panic /\ v.is_valid /\ v.config # None /\ wv
                THEN /\ users' = [users EXCEPT ![h] = update_validation(cleared, v.is_valid, v.config)]
                     /\ now' = NextNow
                ELSE /\ users' = [users EXCEPT ![h] = cleared]
                     /\ UNCHANGED now
        ELSE /\ obs' = Obs("modify", h, FALSE)
             /\ call' = Answered(d, Answer("200", TRUE, TRUE))
             /\ users' = IF w THEN [users EXCEPT ![h] = set_pending_adjustment(users[h], d.secs, d.op)]
                         ELSE users
             /\ UNCHANGED now
    /\ UNCHANGED <<build, ident, adds, running, tasks, sched, ivals>>

\* handlers/admin.rs validate_user: the manual validation stores the outcome
admin_validate_user(h, r, w) ==
    /\ build = "services"
    /\ LET v == services_validate_user(r) IN
        IF v.panic \/ ~w
        THEN /\ obs' = Obs("revalidate", h, FALSE)
             /\ UNCHANGED <<users, now>>
        ELSE /\ obs' = Obs("revalidate", h, v.is_valid)
             /\ users' = [users EXCEPT ![h] = update_validation(users[h], v.is_valid, v.config)]
             /\ now' = NextNow
    /\ UNCHANGED <<build, ident, adds, call, running, tasks, sched, ivals>>

\* create_or_update with the is_synced column left out of the reset.
create_or_update_synced(hours) == Some(ScheduleRow(hours, NoIntervals, TRUE, now))

\* UserWeeklySchedule::create_or_update: INSERT OR REPLACE with is_synced
\* false and last_modified now; last_synced is not among the columns.
create_or_update(hours) == Some(ScheduleRow(hours, NoIntervals, FALSE, now))

\* handlers/dashboard.rs update_weekly_schedule: `.max(0.0).min(24.0)`
Clamped(hours) ==
    [d \in 1..7 |-> IF hours[d] < 0 THEN 0 ELSE IF hours[d] > 48 THEN 48 ELSE hours[d]]

update_weekly_schedule(h, hours, w) ==
    /\ build = "services"
    /\ obs' = Obs("write", h, w)
    /\ IF w
       THEN /\ sched' = [sched EXCEPT ![h] = create_or_update(Clamped(hours))]
            /\ now' = NextNow
       ELSE UNCHANGED <<sched, now>>
    /\ UNCHANGED <<build, ident, adds, call, running, tasks, users, ivals>>

\* handlers/dashboard.rs weekly_schedule_user: opening the page of a host
\* without a schedule creates an all-zero one.
weekly_schedule_user(h, w) ==
    /\ build = "services"
    /\ sched[h] = None
    /\ obs' = Obs("write", h, w)
    /\ IF w
       THEN /\ sched' = [sched EXCEPT ![h] = create_or_update(ZeroHours)]
            /\ now' = NextNow
       ELSE UNCHANGED <<sched, now>>
    /\ UNCHANGED <<build, ident, adds, call, running, tasks, users, ivals>>

\* UserDailyTimeInterval::upsert: INSERT OR REPLACE with is_synced false and
\* last_modified now
upsert(rows, day_of_week, interval) ==
    [rows EXCEPT ![day_of_week] = Some(IntervalRow(interval, now))]

\* handlers/api.rs update_user_intervals: the pairs are taken in order; the
\* first invalid one answers the error, the ones before it are stored.
RECURSIVE UpsertedFrom(_, _, _)
UpsertedFrom(rows, req, i) ==
    IF i > Len(req) THEN [rows |-> rows, ok |-> TRUE]
    ELSE IF ~is_valid_interval(req[i][2]) THEN [rows |-> rows, ok |-> FALSE]
    ELSE UpsertedFrom(upsert(rows, req[i][1], req[i][2]), req, i + 1)

update_user_intervals(h, req, w) ==
    /\ build = "services"
    /\ obs' = Obs("write_hours", h, UpsertedFrom(ivals[h], req, 1).ok)
    /\ IF w
       THEN /\ ivals' = [ivals EXCEPT ![h] = UpsertedFrom(ivals[h], req, 1).rows]
            /\ now' = NextNow
       ELSE UNCHANGED <<ivals, now>>
    /\ UNCHANGED <<build, ident, adds, call, running, tasks, users, sched>>

\* ------------------------------------------------------ add-user requests
\* The pairs add-user requests carry: the pair of the registered host 1 and
\* a pair no host has yet.
AddPairs == {Account(1), Account(NumHosts + 1)}

Registered(pair) == \E h \in Hosts : ident[h] = pair

SetAdd(r, pc, pair, answer) ==
    [adds EXCEPT ![r] = [pc |-> pc, pair |-> pair, answer |-> answer]]

\* INSERT INTO managed_users / managed_user: the table takes the new row
\* under the next id; the host has no schedule and no windows yet.
Inserted_user(pair, row) ==
    /\ users' = Append(users, row)
    /\ ident' = Append(ident, pair)
    /\ sched' = Append(sched, None)
    /\ ivals' = Append(ivals, NoIntervals)

\* UserService::add_user, first part: find_all (q: the query succeeds) and
\* the comparison of every row's pair with the requested one.
add_user_find_all(r, pair, q) ==
    /\ build = "root"
    /\ adds[r].pc = "none"
    /\ adds' = IF ~q THEN SetAdd(r, "done", pair, "500")
               ELSE IF Registered(pair) THEN SetAdd(r, "done", pair, "400")
               ELSE SetAdd(r, "validate", pair, "none")
    /\ UNCHANGED <<build, ident, call, now, running, tasks, users, sched, ivals, obs>>

\* UserService::add_user, second part, after the status query (reply r2)
\* has returned: save() inserts the new row (w: the INSERT succeeds).
add_user_save(r, r2, w) ==
    /\ build = "root"
    /\ adds[r].pc = "validate"
    /\ obs' = Obs("validate_new", 0, validate_user(r2).reachable)
    /\ IF w
       THEN /\ Inserted_user(adds[r].pair,
                   [UserRow(validate_user(r2).reachable) EXCEPT
                       !.last_checked = now, !.last_config = validate_user(r2).config])
            /\ now' = NextNow
            /\ adds' = SetAdd(r, "done", adds[r].pair, "200")
       ELSE /\ adds' = SetAdd(r, "done", adds[r].pair, "500")
            /\ UNCHANGED <<users, ident, sched, ivals, now>>
    /\ UNCHANGED <<build, call, running, tasks>>

\* handlers/admin.rs add_user, first part: find_by_username_and_ip (q: the
\* query succeeds). Every outcome is answered with the redirect to /admin.
admin_add_find(r, pair, q) ==
    /\ build = "services"
    /\ adds[r].pc = "none"
    /\ adds' = IF ~q \/ Registered(pair) THEN SetAdd(r, "done", pair, "redirect")
               ELSE SetAdd(r, "create", pair, "none")
    /\ UNCHANGED <<build, ident, call, now, running, tasks, users, sched, ivals, obs>>

\* handlers/admin.rs add_user, second part: ManagedUser::create inserts the
\* row with is_valid false (w), then the host is validated and
\* update_validation stores the outcome (wv, result dropped).
admin_add_create(r, r2, w, wv) ==
    /\ build = "services"
    /\ adds[r].pc = "create"
    /\ LET v == services_validate_user(r2) IN
        IF ~w
        THEN /\ adds' = SetAdd(r, "done", adds[r].pair, "redirect")
             /\ UNCHANGED <<users, ident, sched, ivals, now, obs>>
        ELSE /\ obs' = Obs(IF v.panic THEN "panic" ELSE "validate_new", 0, v.is_valid)
             /\ Inserted_user(adds[r].pair,
                    IF v.panic \/ ~wv THEN UserRow(FALSE)
                    ELSE update_validation(UserRow(FALSE), v.is_valid, v.config))
             /\ now' = IF v.panic \/ ~wv THEN now ELSE NextNow
             /\ adds' = SetAdd(r, "done", adds[r].pair,
                               IF v.panic THEN "panic" ELSE "redirect")
    /\ UNCHANGED <<build, call, running, tasks>>

\* One step of add-user request r.
AddStep(r) ==
    \/ \E pair \in AddPairs, q \in BOOLEAN : add_user_find_all(r, pair, q)
    \/ \E r2 \in StatusReplies, w \in BOOLEAN : add_user_save(r, r2, w)
    \/ \E pair \in AddPairs, q \in BOOLEAN : admin_add_find(r, pair, q)
    \/ \E r2 \in StatusReplies, w \in BOOLEAN, wv \in BOOLEAN : admin_add_create(r, r2, w, wv)

\* ------------------------------------------------- requests turned away
\* The protected endpoints.
Endpoints ==
    {"add_user", "delete_user", "modify_time", "schedule_update", "schedule_read",
     "dashboard"}

\* The Authorization header of a request: absent, a bearer token that does
\* not verify, a bearer token that verifies.
Tokens == {"missing", "invalid", "valid"}

\* root build: the subject of the token, or an Unauthorized error
verify_jwt(tok) == tok = "valid"
authenticate_request(tok) == verify_jwt(tok)

\* services build: the session's logged_in flag, whatever the headers are
is_authenticated(session) == session

\* services build: what a handler answers when the session is not logged
\* in. The JSON handlers answer 200 with success=false, the page handlers
\* redirect to the login page.
NotAuthenticated(e) ==
    IF e \in {"modify_time", "schedule_read"} THEN "200" ELSE "redirect"

\* The early return of the handler of endpoint e for a request that does
\* not authenticate.
unauthorized(e, tok, session) ==
    /\ IF build = "root" THEN ~authenticate_request(tok) ELSE ~is_authenticated(session)
    /\ call' = [fn |-> e, arg |-> tok,
                ret |-> IF build = "root" THEN "401" ELSE NotAuthenticated(e)]
    /\ UNCHANGED <<build, ident, adds, now, running, tasks, users, sched, ivals, obs>>

\* ------------------------------------------------------- specifications
\* One step of loop task t, delta and status parts.
LoopStep(t) ==
    \/ interval_tick(t)
    \/ \E q \in BOOLEAN : update_users_task(t, q)
    \/ \E r \in StatusReplies, w \in BOOLEAN : update_users_step(t, r, w)
    \/ \E q \in BOOLEAN : process_pending_adjustments(t, q)
    \/ \E q \in BOOLEAN : sync_pending_schedules(t, q)
    \/ run_loop_check(t)
    \/ \E q \in BOOLEAN : update_all_users(t, q)
    \/ \E out \in CmdOutcomes, w \in BOOLEAN : u_pending(t, out, w)
    \/ \E outs \in WeeklyOutcomeSamples, w \in BOOLEAN : u_weekly(t, outs, w)
    \/ \E p \in HoursPushSamples, w \in BOOLEAN : u_intervals(t, p[1], p[2], w)
    \/ \E r \in StatusReplies, w \in BOOLEAN : u_validate(t, r, w)

\* The root loop's two walking steps that need rows to walk.
ApplyStep(t) == \E out \in CmdOutcomes, w \in BOOLEAN : pending_step(t, out, w)
SyncStep(t) == \E p \in RootPushSamples, w \in BOOLEAN : sync_step(t, p[1], p[2], p[3], w)

ValidateRequest ==
    \/ \E h \in Hosts, r \in StatusReplies, w \in BOOLEAN : root_validate_request(h, r, w)
    \/ \E h \in Hosts, r \in StatusReplies, w \in BOOLEAN : admin_validate_user(h, r, w)

ModifyRequest ==
    \/ \E h \in Hosts, d \in ReqDeltas, out \in CmdOutcomes, r \in StatusReplies,
          w \in BOOLEAN : root_modify_time(h, d, out, r, w)
    \/ \E h \in Hosts, d \in ReqDeltas, out \in CmdOutcomes, r \in StatusReplies,
          w \in BOOLEAN, wv \in BOOLEAN : api_modify_time(h, d, out, r, w, wv)

ScheduleRequest ==
    \/ \E h \in Hosts, hours \in ReqHours, ri \in ReqIntervals, w \in BOOLEAN :
          update_schedule_api(h, hours, ri, w)
    \/ \E h \in Hosts, hours \in ReqHours, w \in BOOLEAN : main_update_schedule_api(h, hours, w)
    \/ \E h \in Hosts, hours \in ReqHours, w \in BOOLEAN : update_weekly_schedule(h, hours, w)
    \/ \E h \in Hosts, w \in BOOLEAN : weekly_schedule_user(h, w)
    \/ \E h \in Hosts, req \in ReqWindows, w \in BOOLEAN : update_user_intervals(h, req, w)

\* Lifecycle: start and stop calls against the loops, no requests.
NextCtl ==
    \/ start
    \/ stop
    \/ \E t \in TaskIds : LoopStep(t)

\* Deltas: modify-time requests and manual validations against one loop.
NextDelta ==
    \/ start
    \/ \E t \in TaskIds : LoopStep(t)
    \/ \E t \in TaskIds : ApplyStep(t)
    \/ ModifyRequest
    \/ ValidateRequest

\* Schedules: schedule writes and manual validations against one loop.
NextSched ==
    \/ start
    \/ \E t \in TaskIds : LoopStep(t)
    \/ \E t \in TaskIds : SyncStep(t)
    \/ ScheduleRequest
    \/ ValidateRequest

Next == NextCtl \/ NextDelta \/ NextSched

SpecCtl == Init /\ [][NextCtl]_vars
SpecDelta == Init /\ [][NextDelta]_vars
SpecSched == Init /\ [][NextSched]_vars
Spec == Init /\ [][Next]_vars

\* Fairness of the lifecycle workload: every loop task keeps being scheduled
\* (the runtime polls every spawned task, the interval keeps firing, every
\* remote command returns).
SpecCtlFair == SpecCtl /\ \A t \in TaskIds : WF_vars(LoopStep(t))

\* Fairness of the delta workload: every loop task keeps being scheduled,
\* and a query, a remote apply and a clearing write that are tried again
\* and again do not fail for ever.
SpecDeltaFair ==
    /\ SpecDelta
    /\ \A t \in TaskIds : WF_vars(LoopStep(t) \/ ApplyStep(t))
    /\ \A t \in TaskIds : SF_vars(process_pending_adjustments(t, TRUE))
    /\ \A t \in TaskIds : SF_vars(pending_step(t, "exit0", TRUE))
    /\ \A t \in TaskIds : SF_vars(update_all_users(t, TRUE))
    /\ \A t \in TaskIds : SF_vars(u_pending(t, "exit0", TRUE))

\* Queued deltas alone: modify-time requests against one loop, no manual
\* validation, under the fairness of the delta workload.
NextQueue ==
    \/ start
    \/ \E t \in TaskIds : LoopStep(t)
    \/ \E t \in TaskIds : ApplyStep(t)
    \/ ModifyRequest

SpecQueueFair ==
    /\ Init /\ [][NextQueue]_vars
    /\ \A t \in TaskIds : WF_vars(LoopStep(t) \/ ApplyStep(t))
    /\ \A t \in TaskIds : SF_vars(process_pending_adjustments(t, TRUE))
    /\ \A t \in TaskIds : SF_vars(pending_step(t, "exit0", TRUE))
    /\ \A t \in TaskIds : SF_vars(update_all_users(t, TRUE))
    /\ \A t \in TaskIds : SF_vars(u_pending(t, "exit0", TRUE))

\* The reply of a host that answers the status query: exit 0 and well-formed
\* lines.
GoodReply == [out |-> "exit0", text |-> "info"]

\* Fairness of the status refresh: every loop task keeps being scheduled,
\* and the query for the hosts, the status query of a host and the write
\* of its outcome, tried again and again, do not fail for ever.
SpecValidateFair ==
    /\ SpecCtl
    /\ \A t \in TaskIds : WF_vars(LoopStep(t))
    /\ \A t \in TaskIds : SF_vars(update_users_task(t, TRUE))
    /\ \A t \in TaskIds : SF_vars(update_users_step(t, GoodReply, TRUE))
    /\ \A t \in TaskIds : SF_vars(update_all_users(t, TRUE))
    /\ \A t \in TaskIds : SF_vars(u_validate(t, GoodReply, TRUE))

\* Fairness of the schedule workload: every loop task keeps being
\* scheduled, and the queries, the pushes of a schedule and the write that
\* marks it, tried again and again, do not fail for ever.
SpecSchedFair ==
    /\ SpecSched
    /\ \A t \in TaskIds : WF_vars(LoopStep(t) \/ SyncStep(t))
    /\ \A t \in TaskIds : SF_vars(sync_pending_schedules(t, TRUE))
    /\ \A t \in TaskIds : SF_vars(sync_step(t, "exit0", "exit0", AllDays("exit0"), TRUE))
    /\ \A t \in TaskIds : SF_vars(update_all_users(t, TRUE))
    /\ \A t \in TaskIds :
          SF_vars(u_weekly(t, <<"exit0", "exit0", "exit0", "exit0">>, TRUE))

\* Requests alone: modify-time requests and manual validations while no loop
\* task runs (the scheduler is never started).
NextRequest ==
    \/ ModifyRequest
    \/ ValidateRequest

SpecRequest == Init /\ [][NextRequest]_vars

\* Registrations: add-user requests that may overlap, no loop task.
NextAdd == \E r \in AddIds : AddStep(r)

SpecAdd == Init /\ [][NextAdd]_vars

\* Requests that do not authenticate, among add-user requests that do.
NextAuth ==
    \/ \E r \in AddIds : AddStep(r)
    \/ \E e \in Endpoints, tok \in Tokens, session \in BOOLEAN : unauthorized(e, tok, session)

SpecAuth == Init /\ [][NextAuth]_vars

\* Two hosts under one loop. The rows are ones requests leave behind: a host
\* is valid or not, holds a queued delta or none, and has no schedule or an
\* unsynced one written by the build's schedule request.
TickUserRows ==
    { UserRow(TRUE), UserRow(FALSE),
      [UserRow(TRUE) EXCEPT !.pending_time_adjustment = Some(1),
                            !.pending_time_operation = Some("+")] }
TickScheduleRows ==
    { None,
      IF build = "root"
      THEN save(NewSchedule(SomeHours, [d \in 1..7 |-> Some(WorkInterval)]))
      ELSE create_or_update(SomeHours) }

InitTick ==
    /\ build \in Builds
    /\ now = 1
    /\ running = FALSE
    /\ tasks = [t \in TaskIds |-> IdleTask]
    /\ users \in [1..TickHosts -> TickUserRows]
    /\ sched \in [1..TickHosts -> TickScheduleRows]
    /\ ivals = [h \in 1..TickHosts |-> NoIntervals]
    /\ obs = NoObs
    /\ call = NoCall
    /\ ident = [h \in 1..TickHosts |-> Account(h)]
    /\ adds = [r \in AddIds |-> IdleAdd]

\* Ticks: the loop alone, walking the hosts of its candidate lists.
NextTick ==
    \/ start
    \/ \E t \in TaskIds : LoopStep(t)
    \/ \E t \in TaskIds : ApplyStep(t)
    \/ \E t \in TaskIds : SyncStep(t)

SpecTick == InitTick /\ [][NextTick]_vars

\* ------------------------------------------- adapter and codec, called alone
\* The engine at rest while one adapter or codec function is called.
Idle ==
    /\ now = 1
    /\ running = FALSE
    /\ tasks = [t \in TaskIds |-> IdleTask]
    /\ users = [h \in 1..NumHosts |-> UserRow(TRUE)]
    /\ sched = [h \in 1..NumHosts |-> None]
    /\ ivals = [h \in 1..NumHosts |-> NoIntervals]
    /\ obs = NoObs
    /\ ident = [h \in 1..NumHosts |-> Account(h)]
    /\ adds = [r \in AddIds |-> IdleAdd]

\* The argument of a call that is still to be made.
Argument(a) == [fn |-> "none", arg |-> a, ret |-> <<>>]

\* Weekly hours: every choice of 0 or 2.5 h per weekday, and the 2.5 / 0 / 4
\* schedule; with them the outcomes of the commands (days, sudo days, limits,
\* sudo limits).
HoursInputs == [1..7 -> {0, 5}] \cup {SomeHours}
WeeklyInputs ==
    {[hours |-> h, outs |-> o] : h \in HoursInputs,
                                o \in [1..4 -> CmdOutcomes]}

InitWeekly ==
    /\ Idle
    /\ build \in Builds
    /\ call \in {Argument(a) : a \in WeeklyInputs}

\* set_weekly_time_limits of the build, called with the drawn argument.
WeeklyPush ==
    /\ call.fn = "none"
    /\ call' = [call EXCEPT
                  !.fn = "set_weekly_time_limits",
                  !.ret = IF build = "root"
                          THEN set_weekly_time_limits(call.arg.hours, call.arg.outs[1],
                                                      call.arg.outs[3])
                          ELSE services_set_weekly_time_limits(call.arg.hours,
                                                               call.arg.outs)]
    /\ UNCHANGED <<build, ident, adds, now, running, tasks, users, sched, ivals, obs>>

\* The two lists set_weekly_time_limits builds before it sends anything.
WeeklyLists ==
    /\ call.fn = "none"
    /\ call' = [call EXCEPT
                  !.fn = "weekly_lists",
                  !.ret = [allowed_days |-> allowed_days(call.arg.hours),
                           time_limits |-> time_limits(call.arg.hours)]]
    /\ UNCHANGED <<build, ident, adds, now, running, tasks, users, sched, ivals, obs>>

NextWeekly == WeeklyPush \/ WeeklyLists
SpecWeekly == InitWeekly /\ [][NextWeekly]_vars

\* Stored start/end pairs of the root build's schedule row, monday..sunday:
\* no pair at all, 09:00-17:00 or 00:00-23:59 on every weekday, and a monday
\* of 09:00-09:30 before 09:00-17:00 weekdays.
RootIntervalInputs ==
    { NoIntervals,
      [d \in 1..7 |-> Some(WorkInterval)],
      [d \in 1..7 |-> Some(DefaultInterval)],
      [d \in 1..7 |-> IF d = 1 THEN Some(TimeInterval(9, 0, 9, 30))
                      ELSE Some(WorkInterval)] }

\* Stored windows of the services build, monday..sunday: none, a monday
\* window alone, the same window on every weekday enabled or disabled, and
\* a week of disabled windows with an enabled wednesday.
WindowInputs ==
    { NoIntervals,
      [d \in 1..7 |-> IF d = 1 THEN Some(Window(9, 0, 17, 0, TRUE)) ELSE None],
      [d \in 1..7 |-> Some(Window(9, 30, 17, 15, TRUE))],
      [d \in 1..7 |-> Some(Window(9, 0, 17, 0, FALSE))],
      [d \in 1..7 |-> Some(Window(9, 15, 9, 45, d = 3))] }

\* Outcomes of the per-weekday commands and of their sudo retries.
DayOutcomeInputs ==
    { AllDays("exit0"), AllDays("err"), AllDays("exitN"), MondayOnly,
      [d \in 1..7 |-> IF d = 2 THEN "err" ELSE "exit0"],
      [d \in 1..7 |-> IF d = 7 THEN "exit0" ELSE "exitN"] }

DailyInputs ==
    {[iv |-> i, rows |-> r, dayOut |-> o, sudoOut |-> so] :
        i \in RootIntervalInputs, r \in WindowInputs,
        o \in DayOutcomeInputs, so \in {AllDays("exit0"), AllDays("err"), AllDays("exitN")}}

InitDaily ==
    /\ Idle
    /\ build \in Builds
    /\ call \in {Argument(a) : a \in DailyInputs}

\* set_weekly_allowed_hours (root) or set_allowed_hours (services), called
\* with the drawn argument.
DailyPush ==
    /\ call.fn = "none"
    /\ call' = [call EXCEPT
                  !.fn = "set_allowed_hours",
                  !.ret = IF build = "root"
                          THEN set_weekly_allowed_hours(call.arg.iv, call.arg.dayOut)
                          ELSE set_allowed_hours(call.arg.rows, call.arg.dayOut,
                                                 call.arg.sudoOut)]
    /\ UNCHANGED <<build, ident, adds, now, running, tasks, users, sched, ivals, obs>>

NextDaily == DailyPush
SpecDaily == InitDaily /\ [][NextDaily]_vars

\* Values of agent output lines: single items, and lists with digit items,
\* an empty last item, words and booleans.
ValueInputs ==
    {<<x>> : x \in Items} \cup
    { <<"0", "42">>, <<"42", "">>, <<"42", "abc", "true">>, <<"", "">>,
      <<"42", "99999999999999999999">> }
LineInputs ==
    {Line(k, v) : k \in {"TIME_LEFT_DAY", "ALLOWED_WEEKDAYS"}, v \in ValueInputs}
        \cup {NoSeparatorLine}
\* Agent outputs of at most MaxLines lines.
MaxLines == 2
OutputInputs == UNION {[1..n -> LineInputs] : n \in 0..MaxLines}

InitParse ==
    /\ Idle
    /\ build = "services"
    /\ call \in {Argument(a) : a \in OutputInputs}

\* parse_timekpr_output called with the drawn output.
ParseOutput ==
    /\ call.fn = "none"
    /\ call' = [call EXCEPT !.fn = "parse_timekpr_output",
                            !.ret = parse_timekpr_output(call.arg)]
    /\ UNCHANGED <<build, ident, adds, now, running, tasks, users, sched, ivals, obs>>

NextParse == ParseOutput
SpecParse == InitParse /\ [][NextParse]_vars

\* Replies to the status query: every outcome of the command with every
\* kind of text; a command that could not be run (no key, ssh not spawned)
\* printed nothing. An ssh that ran but could not connect or authenticate
\* exits non-zero with no text.
TextKinds ==
    { "empty", "notfound", "info", "badnum", "spent", "twolines", "list",
      "emptyitem", "semicolon", "biglist", "bool", "word", "nosep" }
StatusInputs ==
    {[out |-> o, text |-> t] : o \in {"exit0", "exitN"}, t \in TextKinds}
        \cup {[out |-> "err", text |-> "empty"]}

InitStatus ==
    /\ Idle
    /\ build \in Builds
    /\ call \in {Argument(a) : a \in StatusInputs}

\* validate_user of the build, called with the drawn reply.
StatusQuery ==
    /\ call.fn = "none"
    /\ call' = [call EXCEPT
                  !.fn = "validate_user",
                  !.ret = IF build = "root"
                          THEN [panic |-> FALSE,
                                reachable |-> validate_user(call.arg).reachable,
                                config |-> validate_user(call.arg).config]
                          ELSE [panic |-> services_validate_user(call.arg).panic,
                                reachable |-> services_validate_user(call.arg).is_valid,
                                config |-> services_validate_user(call.arg).config]]
    /\ UNCHANGED <<build, ident, adds, now, running, tasks, users, sched, ivals, obs>>

NextStatus == StatusQuery
SpecStatus == InitStatus /\ [][NextStatus]_vars

\* Windows: hours and minutes from a few values of the day, enabled or not;
\* valid and invalid ones alike.
WindowHours == {0, 9, 10, 17, 23}
WindowMinuteValues == {0, 15, 30, 45, 59}
EncodeInputs ==
    {Window(sh, sm, eh, em, en) : sh \in WindowHours, sm \in WindowMinuteValues,
                                  eh \in WindowHours, em \in WindowMinuteValues,
                                  en \in BOOLEAN}

InitEncode ==
    /\ Idle
    /\ build = "services"
    /\ call \in {Argument(a) : a \in EncodeInputs}

\* to_timekpr_format called on the drawn window.
Encode ==
    /\ call.fn = "none"
    /\ call' = [call EXCEPT !.fn = "to_timekpr_format",
                            !.ret = to_timekpr_format(call.arg)]
    /\ UNCHANGED <<build, ident, adds, now, running, tasks, users, sched, ivals, obs>>

NextEncode == Encode
SpecEncode == InitEncode /\ [][NextEncode]_vars

\* Windows as the interval update takes them from the request: any integer
\* fields is_valid_interval lets through, so besides the windows above one
\* whose start minute is 75, one whose end minute is 75 behind an earlier
\* hour, and one written from hour 24 with negative minutes.
OddWindows ==
    { Window(9, 75, 11, 0, TRUE), Window(10, 0, 9, 75, TRUE),
      Window(24, -30, 24, -15, TRUE) }

InitEncodeAny ==
    /\ Idle
    /\ build = "services"
    /\ call \in {Argument(a) : a \in EncodeInputs \cup OddWindows}

SpecEncodeAny == InitEncodeAny /\ [][NextEncode]_vars

\* --------------------------------------------------------------- claims
\* A step of a loop task: it moves a task and is no start() call.
TickStep == tasks' # tasks /\ running' = running

\* The stored pending delta of a row
PendingOf(u) == <<u.pending_time_adjustment, u.pending_time_operation>>

\* The host and the delta of the row loop task t is working on
ItemHost(t) == Head(tasks[t].queue).id
ItemDelta(t) == <<Head(tasks[t].queue).adj, Head(tasks[t].queue).op>>

\* Loop task t sends the delta it holds for its current row (out: the
\* command's outcome, w: whether the clearing write succeeds).
ApplyAttempt(t, out, w) ==
    \/ pending_step(t, out, w)
    \/ u_pending(t, out, w) /\ Head(tasks[t].queue).adj # None
                            /\ Head(tasks[t].queue).op # None

\* C1: a tick's apply attempt that fails leaves the stored pending delta as
\* it was, and the tick whose apply attempt succeeds clears it: after the
\* first success no delta is stored, so it is sent in no later tick.
C1_ClearedInTickOfFirstSuccess ==
    [][\A t \in TaskIds, out \in CmdOutcomes, w \in BOOLEAN :
          ApplyAttempt(t, out, w) =>
              IF out = "exit0" THEN ~HasPending(users'[ItemHost(t)])
              ELSE PendingOf(users'[ItemHost(t)]) = PendingOf(users[ItemHost(t)])]_vars

\* C2: a stored pending delta is removed or replaced only by a loop step
\* whose remote apply of that same delta succeeded; no request and no
\* interleaving makes it disappear unapplied.
C2_QueuedDeltaLeavesOnlyApplied ==
    [][\A h \in Hosts :
          (HasPending(users[h]) /\ PendingOf(users'[h]) # PendingOf(users[h])) =>
              \E t \in TaskIds, w \in BOOLEAN :
                  /\ ApplyAttempt(t, "exit0", w)
                  /\ ItemHost(t) = h
                  /\ ItemDelta(t) = PendingOf(users[h])]_vars

\* A start() call that returned: it is the only step that sets this record.
StartReturned == obs' # obs /\ obs'.kind = "start"

\* C3: start() on a running scheduler changes neither the flag nor the loop
\* tasks; start() on a stopped one sets the flag and adds exactly one loop
\* task. In the root build, which has no stop(), a running scheduler has
\* exactly one loop task whatever the number of start() calls.
C3_StartIdempotent ==
    /\ [][StartReturned =>
             IF running THEN running' /\ tasks' = tasks
             ELSE running' /\ Cardinality(AliveTasks') = Cardinality(AliveTasks) + 1]_vars
    /\ []((build = "root" /\ is_running) => Cardinality(AliveTasks) = 1)

\* C3 witness: a second start() has returned on a running scheduler and one
\* loop task is alive.
C3_SecondStartNoOp ==
    obs = Obs("start", 0, FALSE) /\ is_running /\ Cardinality(AliveTasks) = 1

\* C4: at every moment at most one loop task is alive.
C4_AtMostOneLoop == Cardinality(AliveTasks) <= 1

BecomesSynced(h) == Unsynced(h) /\ sched'[h] # None /\ Unwrap(sched'[h]).is_synced
\* The window record of weekday d of host h turns from unsynced to synced.
WindowBecomesSynced(h, d) ==
    /\ ivals[h][d] # None /\ ~Unwrap(ivals[h][d]).is_synced
    /\ ivals'[h][d] # None /\ Unwrap(ivals'[h][d]).is_synced

\* Loop task t leaves its program point pc in this step.
Leaves(t, pc) == tasks[t].pc = pc /\ tasks'[t] # tasks[t]

\* C7: a record turns from unsynced to synced only in a loop step whose
\* pushes returned ok under the policy (root: the limits push and the
\* allowed-hours push both ok), and a loop step that reports a failed push
\* changes no stored record.
C7_SyncedOnlyAfterSuccessfulPush ==
    [][/\ \A h \in Hosts : BecomesSynced(h) =>
             \E t \in TaskIds :
                 \/ /\ Leaves(t, "sync")
                    /\ \E p \in RootPushSamples :
                         /\ sync_step(t, p[1], p[2], p[3], TRUE)
                         /\ ItemHost(t) = h
                         /\ set_weekly_time_limits(Head(tasks[t].queue).hours, p[1], p[2]).ok
                         /\ set_weekly_allowed_hours(Head(tasks[t].queue).iv, p[3]).ok
                 \/ /\ Leaves(t, "u_weekly")
                    /\ \E outs \in WeeklyOutcomeSamples :
                         /\ u_weekly(t, outs, TRUE)
                         /\ ItemHost(t) = h
                         /\ services_set_weekly_time_limits(Unwrap(sched[h]).hours, outs).ok
       /\ \A h \in Hosts, d \in 1..7 : WindowBecomesSynced(h, d) =>
             \E t \in TaskIds :
                 /\ Leaves(t, "u_intervals")
                 /\ \E p \in HoursPushSamples :
                         /\ u_intervals(t, p[1], p[2], TRUE)
                         /\ ItemHost(t) = h
                         /\ set_allowed_hours(IntervalsDict(ivals[h]), p[1], p[2]).ok
       /\ \A t \in TaskIds :
             (/\ Leaves(t, "sync") \/ Leaves(t, "u_weekly") \/ Leaves(t, "u_intervals")
              /\ obs'.kind \in {"sync", "sync_hours"}
              /\ ~obs'.ok)
                 => (sched' = sched /\ ivals' = ivals)]_vars

\* C7 witness: a push succeeded in a tick and the host's record is synced.
C7_SyncedAfterPush ==
    /\ obs.kind = "sync" /\ obs.ok
    /\ sched[obs.host] # None
    /\ Unwrap(sched[obs.host]).is_synced
    /\ Unwrap(sched[obs.host]).last_synced > 0

\* The weekly record of host h is written in this step: it is new, or its
\* hours, its intervals or its last_modified differ.
WeeklyWritten(h) ==
    /\ sched'[h] # None
    /\ \/ sched[h] = None
       \/ Unwrap(sched'[h]).hours # Unwrap(sched[h]).hours
       \/ Unwrap(sched'[h]).iv # Unwrap(sched[h]).iv
       \/ Unwrap(sched'[h]).last_modified # Unwrap(sched[h]).last_modified
\* The window record of weekday d of host h is written in this step.
WindowWritten(h, d) ==
    /\ ivals'[h][d] # None
    /\ \/ ivals[h][d] = None
       \/ Unwrap(ivals'[h][d]).w # Unwrap(ivals[h][d]).w
       \/ Unwrap(ivals'[h][d]).last_modified # Unwrap(ivals[h][d]).last_modified

\* C8: every step that writes the hours of a weekly record or a daily
\* window leaves that record with is_synced false and with last_modified at
\* the time of the write.
C8_WriteLeavesUnsynced ==
    [][\A h \in Hosts :
          /\ WeeklyWritten(h) =>
                /\ ~Unwrap(sched'[h]).is_synced
                /\ Unwrap(sched'[h]).last_modified = now
          /\ \A d \in 1..7 : WindowWritten(h, d) =>
                /\ ~Unwrap(ivals'[h][d]).is_synced
                /\ Unwrap(ivals'[h][d]).last_modified = now]_vars

\* C8 witness: a record that had been synced (last_synced is kept by the
\* UPDATE) was written again and is unsynced with a later last_modified.
C8_SyncedRecordRewritten ==
    /\ obs.kind = "write" /\ obs.ok
    /\ sched[obs.host] # None
    /\ ~Unwrap(sched[obs.host]).is_synced
    /\ Unwrap(sched[obs.host]).last_synced > 0
    /\ Unwrap(sched[obs.host]).last_modified > 1

\* C9: no step marks a record of a host whose is_valid is false synced:
\* schedule sync skips invalid hosts and their records stay unsynced.
C9_NoSyncForInvalidHost ==
    [][\A h \in Hosts :
          (BecomesSynced(h) \/ \E d \in 1..7 : WindowBecomesSynced(h, d))
              => users[h].is_valid]_vars

\* C10: while the scheduler is running, a stored pending delta is
\* eventually applied and cleared when the remote apply does not fail for
\* ever.
C10_PendingEventuallyCleared ==
    \A h \in 1..NumHosts :
        [](((is_running /\ HasPending(users[h])) => <>(~HasPending(users[h]))))

\* C11: while a loop task walks a candidate list, whatever happens with the
\* host at the head of the list (a remote error, a failed write), the hosts
\* behind it stay on the list: the step leaves the list as it is or removes
\* its head only.
C11_FailureKeepsRemainingHosts ==
    [][\A t \in TaskIds :
          (Len(tasks[t].queue) >= 2 /\ tasks'[t] # tasks[t]) =>
              tasks'[t].queue \in {tasks[t].queue, Tail(tasks[t].queue)}]_vars

\* A candidate query of loop task t fails in this step.
QueryFails(t) ==
    \/ update_users_task(t, FALSE)
    \/ process_pending_adjustments(t, FALSE)
    \/ sync_pending_schedules(t, FALSE)
    \/ update_all_users(t, FALSE)

\* C12: a failed candidate query ends the tick: the loop task goes straight
\* back to waiting for its next tick (it does not exit, and it reaches no
\* later part of the same tick), and the step writes nothing.
C12_FailedQueryAbortsTick ==
    [][\A t \in TaskIds :
          QueryFails(t) =>
              /\ tasks'[t].pc = (IF build = "root" THEN "wait" ELSE "check")
              /\ tasks'[t].queue = <<>>
              /\ UNCHANGED <<users, sched, ivals, obs>>]_vars

\* The setalloweddays call of a weekly push succeeded: the command exited 0,
\* or it could not be run and its sudo retry (services build) exited 0.
DaysCallOk(a) ==
    IF build = "root" THEN a.outs[1] = "exit0"
    ELSE a.outs[1] = "exit0" \/ (a.outs[1] = "err" /\ a.outs[2] = "exit0")
\* The same for the settimelimits call.
LimitsCallOk(a) ==
    IF build = "root" THEN a.outs[3] = "exit0"
    ELSE a.outs[3] = "exit0" \/ (a.outs[3] = "err" /\ a.outs[4] = "exit0")

IsDaysCmd(c) == c.cmd \in {"setalloweddays", "sudo setalloweddays"}
IsLimitsCmd(c) == c.cmd \in {"settimelimits", "sudo settimelimits"}

\* C13: a weekly push of a schedule with at least one weekday sends its
\* setalloweddays command first and no settimelimits command before a
\* setalloweddays one; it returns ok exactly when both calls succeeded, and
\* never ok when the setalloweddays call failed.
C13_WeeklyPushOkIffBothSucceed ==
    (call.fn = "set_weekly_time_limits" /\ \E d \in 1..7 : call.arg.hours[d] > 0) =>
        LET cmds == call.ret.cmds IN
        /\ cmds # <<>> /\ IsDaysCmd(cmds[1])
        /\ \A i, j \in 1..Len(cmds) :
               (IsLimitsCmd(cmds[i]) /\ IsDaysCmd(cmds[j])) => j < i
        /\ call.ret.ok <=> (DaysCallOk(call.arg) /\ LimitsCallOk(call.arg))
        /\ ~DaysCallOk(call.arg) => ~call.ret.ok

DaySent(d) == \E i \in 1..Len(call.ret.cmds) : call.ret.cmds[i].day = d
\* A sudo retry for weekday d is among them.
DayRetried(d) ==
    \E i \in 1..Len(call.ret.cmds) :
        call.ret.cmds[i].day = d /\ call.ret.cmds[i].cmd = "sudo setallowedhours"
\* The call of weekday d succeeded: its command, or the retry, exited 0.
DayCallOk(d) ==
    /\ DaySent(d)
    /\ \/ call.arg.dayOut[d] = "exit0"
       \/ DayRetried(d) /\ call.arg.sudoOut[d] = "exit0"

\* C14: a daily-window push sends a command for each of the seven weekdays,
\* whatever the outcome of the weekdays before, and returns ok exactly when
\* the call of at least one weekday succeeded.
C14_DailyPushSevenCallsLenientOk ==
    call.fn = "set_allowed_hours" =>
        /\ \A d \in 1..7 : DaySent(d)
        /\ call.ret.ok <=> \E d \in 1..7 : DayCallOk(d)

\* The typed form the rule of the claim gives a single item: an integer for
\* a digit text, a boolean for true or false in any letter case, else the
\* text itself.
IsDigitText(x) == x \in {"0", "42", "99999999999999999999"}
TypedItems(x) ==
    IF IsDigitText(x) THEN {[t |-> "number", text |-> x]}
    ELSE IF x \in {"true", "TRUE", "False"}
    THEN {[t |-> "bool", text |-> x], [t |-> "string", text |-> x]}
    ELSE {[t |-> "string", text |-> x]}
\* The text a parsed value stands for.
JsonText(j) ==
    IF j.t = "number" THEN (IF j.v = 0 THEN "0" ELSE IF j.v = 42 THEN "42" ELSE "?")
    ELSE IF j.t = "bool"
    THEN (IF j.v THEN "true" ELSE "false")
    ELSE j.v
SameText(a, b) ==
    \/ a = b
    \/ a \in {"true", "TRUE"} /\ b \in {"true", "TRUE"}
    \/ a \in {"false", "False"} /\ b \in {"false", "False"}
\* Parsed value j is item x typed by the rule (inside a list a boolean text
\* may also stay a string).
ItemTypedAs(j, x, inList) ==
    \E e \in TypedItems(x) :
        /\ j.t = e.t
        /\ j.t \in {"number", "bool", "string"}
        /\ SameText(JsonText(j), x)
        /\ (~inList /\ x \in {"true", "TRUE", "False"}) => j.t = "bool"

\* C20: parse_timekpr_output returns a mapping for the output it is given,
\* and the mapping gives the key of every line "key: value" with a non-empty
\* value (the last line of that key) the typed value of the rule: an integer
\* for digits, a list of individually typed items for a value with ';', a
\* boolean for true or false, else the text.
C20_ValuesTypedByRule ==
    call.fn = "parse_timekpr_output" =>
        /\ ~call.ret.panic
        /\ \A i \in 1..Len(call.arg) :
              LET line == call.arg[i] IN
              (/\ line.key # None
               /\ line.value # <<"">>
               /\ \A k \in (i + 1)..Len(call.arg) :
                      call.arg[k].key # line.key \/ call.arg[k].value = <<"">>) =>
                  /\ Unwrap(line.key) \in DOMAIN call.ret.config
                  /\ LET j == call.ret.config[Unwrap(line.key)] IN
                     IF Len(line.value) = 1 THEN ItemTypedAs(j, line.value[1], FALSE)
                     ELSE /\ j.t = "array"
                          /\ Len(j.v) = Len(line.value)
                          /\ \A n \in 1..Len(line.value) :
                                 ItemTypedAs(j.v[n], line.value[n], TRUE)

\* C15: validate_user answers reachable=false without a snapshot whenever
\* the status query did not succeed on the host (it could not be run, or ssh
\* or the command exited non-zero) or its output holds the not-found marker,
\* and it answers reachable=true only for a query that exited 0, and then
\* with a snapshot.
C15_ReachableOnlyAfterSuccessfulQuery ==
    call.fn = "validate_user" =>
        /\ (call.arg.out # "exit0" \/ call.arg.text = "notfound") =>
               ~call.ret.panic /\ ~call.ret.reachable /\ call.ret.config = None
        /\ call.ret.reachable => call.arg.out = "exit0" /\ call.ret.config # None

\* The offsets of a window in minutes of the day, and the window invariant.
StartOffset(w) == w.start_hour * 60 + w.start_minute
EndOffset(w) == w.end_hour * 60 + w.end_minute
WindowInvariant(w) ==
    /\ StartOffset(w) < EndOffset(w)
    /\ StartOffset(w) \in 0..1439
    /\ EndOffset(w) \in 0..1439

\* An enabled window that satisfies the invariant has been encoded.
Encoded ==
    call.fn = "to_timekpr_format" /\ call.arg.is_enabled /\ WindowInvariant(call.arg)

\* C16: the tokens of an enabled window satisfying the invariant are those
\* of the three rules: both minutes 0, one token per hour of
\* [start_hour, end_hour); start_hour = end_hour, the one token
\* h[start_minute-end_minute]; else a first token (h, or h[start_minute-59]),
\* the whole hours between, and end_hour[0-end_minute] only for
\* end_minute > 0. The three windows of the examples give their tokens.
C16_TokensFollowThreeRules ==
    Encoded =>
        /\ call.ret # None
        /\ LET w == call.arg
               tokens == Unwrap(call.ret)
           IN
            /\ IF w.start_minute = 0 /\ w.end_minute = 0
               THEN /\ Len(tokens) = w.end_hour - w.start_hour
                    /\ \A i \in 1..Len(tokens) : tokens[i] = <<w.start_hour + i - 1>>
               ELSE IF w.start_hour = w.end_hour
               THEN tokens = << <<w.start_hour, w.start_minute, w.end_minute>> >>
               ELSE /\ Len(tokens) = (w.end_hour - w.start_hour)
                                        + (IF w.end_minute > 0 THEN 1 ELSE 0)
                    /\ tokens[1] = (IF w.start_minute = 0 THEN <<w.start_hour>>
                                    ELSE <<w.start_hour, w.start_minute, 59>>)
                    /\ \A i \in 2..(w.end_hour - w.start_hour) :
                           tokens[i] = <<w.start_hour + i - 1>>
                    /\ w.end_minute > 0 =>
                           tokens[Len(tokens)] = <<w.end_hour, 0, w.end_minute>>
            /\ w = Window(9, 0, 17, 0, TRUE) =>
                   tokens = << <<9>>, <<10>>, <<11>>, <<12>>, <<13>>, <<14>>, <<15>>, <<16>> >>
            /\ w = Window(9, 30, 17, 15, TRUE) =>
                   tokens = << <<9, 30, 59>>, <<10>>, <<11>>, <<12>>, <<13>>, <<14>>,
                               <<15>>, <<16>>, <<17, 0, 15>> >>
            /\ w = Window(9, 15, 9, 45, TRUE) => tokens = << <<9, 15, 45>> >>

\* C16 witness: 09:30-17:00 has been encoded with no token for hour 17.
C16_WholeEndHourHasNoLastToken ==
    /\ Encoded
    /\ call.arg = Window(9, 30, 17, 0, TRUE)
    /\ Len(Unwrap(call.ret)) = 8

\* The minutes of the day a token covers: 0..59 of hour h for h, a..b of
\* hour h for h[a-b].
TokenMinutes(token) ==
    IF Len(token) = 1 THEN {token[1] * 60 + m : m \in 0..59}
    ELSE {token[1] * 60 + m : m \in token[2]..token[3]}
CoveredMinutes(tokens) == UNION {TokenMinutes(tokens[i]) : i \in 1..Len(tokens)}

\* C17: the minutes covered by the tokens of an enabled window satisfying
\* the invariant are the minutes of the window, from its start offset up to
\* its end offset.
C17_TokensCoverWindowMinutes ==
    Encoded =>
        CoveredMinutes(Unwrap(call.ret)) = StartOffset(call.arg)..(EndOffset(call.arg) - 1)

\* The offsets of a stored "HH:MM" pair of the root build.
PairInvariant(i) ==
    /\ i.start[1] * 60 + i.start[2] < i.end[1] * 60 + i.end[2]
    /\ i.start[1] * 60 + i.start[2] \in 0..1439
    /\ i.end[1] * 60 + i.end[2] \in 0..1439

ModifyTime(h, d, out, w) ==
    /\ obs'.kind \in {"modify", "rejected"}
    /\ obs'.host = h
    /\ call'.fn = "modify_time"
    /\ call'.arg = d
    /\ tasks' = tasks
    /\ \E r \in StatusReplies :
          \/ root_modify_time(h, d, out, r, w)
          \/ \E wv \in BOOLEAN : api_modify_time(h, d, out, r, w, wv)

\* The pending delta that stores request d.
Requested(d) == <<Some(d.secs), Some(d.op)>>

C22_InvalidRequestRejected ==
    [][\A h \in Hosts, d \in ReqDeltas, out \in CmdOutcomes, w \in BOOLEAN :
          (ModifyTime(h, d, out, w) /\ ~(d.op \in {"+", "-"} /\ d.secs > 0)) =>
              /\ obs'.kind = "rejected"
              /\ ~call'.ret.success
              /\ UNCHANGED <<users, sched, ivals>>]_vars

\* A schedule update for host h carrying the weekly hours `hours` is
\* answered in this step.
ScheduleUpdate(h, hours) ==
    /\ obs'.kind \in {"write", "rejected"}
    /\ obs'.host = h
    /\ tasks' = tasks
    /\ \E w \in BOOLEAN :
          \/ \E ri \in ReqIntervals : update_schedule_api(h, hours, ri, w)
          \/ main_update_schedule_api(h, hours, w)
          \/ update_weekly_schedule(h, hours, w)

\* C23: a schedule update in which some weekday's hours are below 0 or
\* above 24 is rejected and leaves the stored schedules as they were: hour
\* values, is_synced and last_modified.
C23_BadHoursRejected ==
    [][\A h \in Hosts, hours \in ReqHours :
          (ScheduleUpdate(h, hours) /\ \E d \in 1..7 : hours[d] < 0 \/ hours[d] > 48) =>
              /\ obs'.kind = "rejected"
              /\ sched' = sched]_vars

\* Request r is made in this step for a pair some host already has.
AddsRegisteredPair(r) ==
    adds[r].pc = "none" /\ adds'[r].pc # "none" /\ Registered(adds'[r].pair)

\* C24: no two rows of the users table hold the same (username, address)
\* pair, whatever the overlap of the add requests; and an add request for a
\* pair that is already registered is answered with an error and leaves the
\* table as it was.
C24_NoDuplicateHosts ==
    /\ [](\A i \in DOMAIN ident, j \in DOMAIN ident : ident[i] = ident[j] => i = j)
    /\ [][\A r \in AddIds :
             AddsRegisteredPair(r) =>
                 /\ adds'[r].pc = "done"
                 /\ adds'[r].answer \in {"400", "500"}
                 /\ UNCHANGED <<users, ident>>]_vars

\* Endpoint e turns away, in this step, a request whose Authorization header
\* is tok.
TurnedAway(e, tok) ==
    /\ call'.fn = e
    /\ call'.arg = tok
    /\ \E session \in BOOLEAN : unauthorized(e, tok, session)

\* C25: every protected endpoint answers a request whose bearer token is
\* missing or invalid with 401, sends no remote command and changes no
\* stored state.
C25_NoTokenAnswered401 ==
    [][\A e \in Endpoints, tok \in {"missing", "invalid"} :
          TurnedAway(e, tok) =>
              /\ call'.ret = "401"
              /\ UNCHANGED <<users, sched, ivals, ident, obs>>]_vars

\* Loop task t, walking its list of unsynced schedules, marks the schedule
\* of host h synced in this step.
MarksSynced(t, h) ==
    /\ tasks[t].pc = "sync"
    /\ tasks'[t] # tasks[t]
    /\ Head(tasks[t].queue).id = h
    /\ Unsynced(h)
    /\ sched'[h] # None
    /\ Unwrap(sched'[h]).is_synced

\* C26: a schedule record that is marked synced holds the values of the
\* push that made it so: at the step that sets is_synced, the stored weekly
\* hours and windows are the ones the tick has just pushed, also when a
\* request wrote the record after the tick read it.
C26_SyncedEqualsPushed ==
    [][\A t \in TaskIds, h \in Hosts :
          MarksSynced(t, h) =>
              /\ Unwrap(sched'[h]).hours = Head(tasks[t].queue).hours
              /\ Unwrap(sched'[h]).iv = Head(tasks[t].queue).iv]_vars

\* Loop task t, waiting for its interval, starts the body of a tick in this
\* step.
StartsTick(t) ==
    /\ tasks[t].pc = "wait"
    /\ tasks'[t].pc \notin {"wait", "exited"}

\* C27: no tick starts once stop() has returned: a loop task that was
\* waiting for its interval starts the body of a tick only while the
\* running flag is set.
C27_NoTickAfterStop ==
    [][\A t \in TaskIds : StartsTick(t) => running]_vars

\* A loop task sends, in this step, the pending delta it holds for host h.
LoopSendsDelta(h) ==
    \E t \in TaskIds :
        /\ tasks[t].pc \in {"pending", "u_pending"}
        /\ tasks'[t] # tasks[t]
        /\ Head(tasks[t].queue).id = h
        /\ Head(tasks[t].queue).adj # None
        /\ Head(tasks[t].queue).op # None

\* C28: a queued delta is applied on the host at most once. When the last
\* remote command was a successful apply of the pending delta of host h by
\* the loop and no request has touched the host since, the loop does not
\* send that delta again, whether or not the clearing write succeeded.
C28_DeltaAppliedOnce ==
    [][\A h \in Hosts :
          (obs = Obs("apply", h, TRUE) /\ HasPending(users[h])) =>
              ~(LoopSendsDelta(h) /\ obs'.kind = "apply")]_vars

\* C29: a host stored as invalid that answers the status query is marked
\* valid by the loop itself, no manual validation being made: while the
\* scheduler runs and a loop task lives, an invalid host eventually becomes
\* valid.
C29_InvalidHostRevalidated ==
    \A h \in 1..NumHosts :
        (~users[h].is_valid /\ running /\ AliveTasks # {})
            ~> (users[h].is_valid \/ ~running \/ AliveTasks = {})

\* The scheduler runs, a loop task lives and host h is valid.
Served(h) == running /\ AliveTasks # {} /\ users[h].is_valid

\* C30: while the scheduler runs, an unsynced schedule of a valid host whose
\* remote commands succeed is eventually marked synced, whatever hours it
\* stores, all-zero hours included.
C30_UnsyncedEventuallySynced ==
    \A h \in 1..NumHosts :
        (Served(h) /\ Unsynced(h)) ~> (~Unsynced(h) \/ ~Served(h))

\* Loop task t makes, in this step, the status refresh of the host at the
\* head of its list: r is the reply to the status query.
LoopValidates(t, r) ==
    /\ tasks[t].pc \in {"users", "u_validate"}
    /\ tasks'[t] # tasks[t]
    /\ \E w \in BOOLEAN : update_users_step(t, r, w) \/ u_validate(t, r, w)

\* C31: a tick replaces the stored snapshot of a host only with the snapshot
\* of a successful validation made in that tick (the status query exited 0);
\* after a failed validation the snapshot, the validity and the pending
\* delta of the host are as before and only last_checked may differ.
C31_SnapshotOnlyFromSuccess ==
    [][\A t \in TaskIds, r \in StatusReplies :
          LoopValidates(t, r) =>
              LET h == Head(tasks[t].queue).id IN
              IF r.out = "exit0"
              THEN /\ users'[h].last_config \in {users[h].last_config, Some(SnapOf(r.text))}
                   /\ PendingOf(users'[h]) = PendingOf(users[h])
              ELSE users'[h] = [users[h] EXCEPT !.last_checked = users'[h].last_checked]]_vars

\* C32: no agent output ends the loop task or the tick: whatever the reply
\* to the status query, the refresh of a host leaves the loop task alive,
\* and where the services parser is given the text it returns a mapping.
C32_NoOutputEndsLoop ==
    [][\A t \in TaskIds, r \in StatusReplies :
          LoopValidates(t, r) =>
              /\ Alive(t)'
              /\ (build = "services" /\ r.out # "err" /\ r.text # "notfound")
                    => ~parse_timekpr_output(TextLines(r.text)).panic]_vars

\* An interval update request for host h is answered with the validation
\* error in this step.
IntervalsRejected(h) ==
    /\ obs' = Obs("write_hours", h, FALSE)
    /\ tasks' = tasks
    /\ \E req \in ReqWindows, w \in BOOLEAN : update_user_intervals(h, req, w)

\* C33: an interval update that is rejected because the window of one
\* weekday is invalid stores none of its windows: the rows of the host and
\* their is_synced flags are as before the request.
C33_RejectedUpdateStoresNothing ==
    [][\A h \in Hosts : IntervalsRejected(h) => ivals'[h] = ivals[h]]_vars

\* The recorded push was given no window, or a disabled one, for weekday d.
NoWindowFor(d) ==
    IF build = "root" THEN call.arg.iv[d] = None
    ELSE call.arg.rows[d] = None \/ ~Unwrap(call.arg.rows[d]).is_enabled

\* The recorded push sent the hours 0;1;...;23 for weekday d.
FullDaySent(d) ==
    \E i \in 1..Len(call.ret.cmds) :
        /\ call.ret.cmds[i].day = d
        /\ call.ret.cmds[i].arg = IF build = "root" THEN FullDay ELSE FullDayTokens

\* C34: for a weekday whose window is disabled, or for which no window is
\* stored, the daily-window push sends the full-day hour list 0;1;...;23.
C34_NoWindowSendsFullDay ==
    call.fn = "set_allowed_hours" =>
        \A d \in 1..7 : NoWindowFor(d) => FullDaySent(d)

\* C35: for a weekday whose stored interval is the unrestricted default
\* 00:00 to 23:59, set_weekly_allowed_hours sends all 24 hours 0..23.
C35_DefaultIntervalSendsAllHours ==
    (build = "root" /\ call.fn = "set_allowed_hours") =>
        \A d \in 1..7 : call.arg.iv[d] = Some(DefaultInterval) => FullDaySent(d)

\* C36: for every enabled window is_valid_interval accepts, to_timekpr_format
\* returns a non-empty token list whose hours are strictly increasing and
\* within 0..23, every minute range [a-b] in it with 0 <= a <= b <= 59.
C36_TokensWellFormed ==
    (call.fn = "to_timekpr_format" /\ call.arg.is_enabled /\ is_valid_interval(call.arg)) =>
        /\ call.ret # None
        /\ LET tokens == Unwrap(call.ret) IN
            /\ tokens # <<>>
            /\ \A i \in 1..Len(tokens) :
                  /\ tokens[i][1] \in 0..23
                  /\ i > 1 => tokens[i - 1][1] < tokens[i][1]
                  /\ Len(tokens[i]) = 3 =>
                        (0 <= tokens[i][2] /\ tokens[i][2] <= tokens[i][3] /\ tokens[i][3] <= 59)

\* The phase of the remote call loop task t makes in this step: 1 for the
\* status query, 2 for the apply of a pending delta, 3 for a push of a
\* schedule or of windows, 0 when the step makes no remote call.
CallPhase(t) ==
    IF tasks'[t] = tasks[t] THEN 0
    ELSE IF tasks[t].pc \in {"users", "u_validate"} THEN 1
    ELSE IF tasks[t].pc = "pending" THEN 2
    ELSE IF tasks[t].pc = "u_pending"
    THEN (IF Head(tasks[t].queue).adj # None /\ Head(tasks[t].queue).op # None THEN 2 ELSE 0)
    ELSE IF tasks[t].pc = "sync" THEN 3
    ELSE IF tasks[t].pc = "u_weekly"
    THEN (IF Unsynced(Head(tasks[t].queue).id) THEN 3 ELSE 0)
    ELSE IF tasks[t].pc = "u_intervals"
    THEN (IF UnsyncedIntervals(Head(tasks[t].queue).id) # {} THEN 3 ELSE 0)
    ELSE 0

\* In the tick loop task t is in, the status refresh of some host is still
\* to come: the root task has not left its refresh phase; the services task
\* refreshes the host it is working on at the end of update_user.
RefreshOutstanding(t) ==
    tasks[t].pc \in {"q_users", "users", "u_pending", "u_weekly", "u_intervals", "u_validate"}

\* The same for the apply of a pending delta: the root task has not left its
\* apply phase; the services task has a host behind the one it is working
\* on whose row was read with a delta.
DeltaOutstanding(t) ==
    \/ tasks[t].pc \in {"q_pending", "pending", "u_pending"}
    \/ /\ build = "services"
       /\ \E i \in 2..Len(tasks[t].queue) :
              tasks[t].queue[i].adj # None /\ tasks[t].queue[i].op # None

\* C37: within a tick the phases run in the order status refresh, pending
\* deltas, schedule sync, each finished for all of its hosts before the next
\* makes its first remote call: no delta is applied while a status refresh
\* of the tick is still to come, and no schedule is pushed while a status
\* refresh or an apply of the tick is still to come.
C37_PhasesInOrder ==
    [][\A t \in TaskIds :
          /\ CallPhase(t) = 2 => ~RefreshOutstanding(t)
          /\ CallPhase(t) = 3 => ~RefreshOutstanding(t) /\ ~DeltaOutstanding(t)]_vars

\* The pending columns of a row are well formed: none set, or both set to
\* an operation "+" or "-" and a positive number of seconds.
PendingWellFormed(u) ==
    /\ (u.pending_time_adjustment = None) <=> (u.pending_time_operation = None)
    /\ u.pending_time_adjustment # None =>
           Unwrap(u.pending_time_adjustment) > 0
    /\ u.pending_time_operation # None =>
           Unwrap(u.pending_time_operation) \in {"+", "-"}

\* C38: in every reachable state the pending_time_adjustment and
\* pending_time_operation of a host are both null or both set, and when set
\* the operation is "+" or "-" and the seconds are greater than zero.
C38_PendingColumnsWellFormed ==
    \A h \in Hosts : PendingWellFormed(users[h])

====
